---- MODULE Spec2Model ----
(***************************************************************************)
(* Model of the rune calculator core (rune-core.ts): the scale table       *)
(* builder, the scaled number parser and formatter and the time formula.   *)
(*                                                                         *)
(* Strings are sequences of one-character strings.  A JavaScript number is *)
(* a record [k, n, d, e]: k is "fin", "inf", "ninf" or "nan", and a finite *)
(* number has the value (n / d) * 10^e, kept in a normal form (n and d     *)
(* coprime, d coprime with 10, n not a multiple of 10), so that two        *)
(* records are equal exactly when the numbers are.  Arithmetic is exact    *)
(* inside the range of a double and leaves it as a double does: a          *)
(* magnitude above Number.MAX_VALUE becomes an infinity, one below the     *)
(* smallest subnormal becomes zero.  The sign of zero is not modelled.     *)
(*                                                                         *)
(* Spec is the core called by the panel.  SpecUi is the App that loads the *)
(* two documents and the panel's useLocalStorage hooks: a JSON text is a   *)
(* sequence of tokens and a Set is the sequence of its elements in         *)
(* insertion order.                                                        *)
(***************************************************************************)
EXTENDS Integers, Sequences, FiniteSets, TLC

\* ------------------------------------------------------------------ numbers

Abs(i) == IF i < 0 THEN -i ELSE i

Sign(i) == IF i < 0 THEN -1 ELSE IF i > 0 THEN 1 ELSE 0

RECURSIVE Gcd(_, _)
Gcd(a, b) == IF b = 0 THEN a ELSE Gcd(b, a % b)

RECURSIVE Pow10(_)
Pow10(k) == IF k <= 0 THEN 1 ELSE 10 * Pow10(k - 1)

\* The number of times 10 divides i (i # 0).
RECURSIVE Tens(_)
Tens(i) == IF i % 10 = 0 THEN 1 + Tens(i \div 10) ELSE 0

RECURSIVE Twos(_)
Twos(i) == IF i % 2 = 0 THEN 1 + Twos(i \div 2) ELSE 0

RECURSIVE Fives(_)
Fives(i) == IF i % 5 = 0 THEN 1 + Fives(i \div 5) ELSE 0

RECURSIVE Pow(_, _)
Pow(b, k) == IF k <= 0 THEN 1 ELSE b * Pow(b, k - 1)

NaN == [k |-> "nan", n |-> 0, d |-> 1, e |-> 0]

Infinity == [k |-> "inf", n |-> 0, d |-> 1, e |-> 0]

NegInfinity == [k |-> "ninf", n |-> 0, d |-> 1, e |-> 0]

Zero == [k |-> "fin", n |-> 0, d |-> 1, e |-> 0]

\* floor(log10(n / d)) for n, d > 0.
RECURSIVE FloorLog10(_, _)
FloorLog10(n, d) ==
  IF n < d THEN FloorLog10(n * 10, d) - 1
  ELSE IF n \div 10 >= d THEN FloorLog10(n \div 10, d) + 1
  ELSE 0

\* The decimal exponent of the largest finite double, 1.7976931348623157e308,
\* and its leading digits: a magnitude of 1.798e308 or more is not finite.
MaxValueExp == 308

MaxValueLead == 1798

\* The decimal exponent of the smallest positive double, 5e-324.
MinValueExp == -324

\* (n / d) * 10^e >= 1.798e308, for n, d > 0.
Overflows(n, d, e) ==
  LET m == e + FloorLog10(n, d)
  IN  \/ m > MaxValueExp
      \/ /\ m = MaxValueExp
         \* n * 10^(e - 305) / d >= 1798, with e - 305 = 3 - FloorLog10(n, d)
         /\ LET t == 3 - FloorLog10(n, d)
            IN  IF t >= 0 THEN n * Pow10(t) >= MaxValueLead * d
                ELSE n >= MaxValueLead * d * Pow10(-t)

\* The number (n / d) * 10^e (d # 0) as a double: in normal form, or an
\* infinity or zero when it leaves the range.
MkNum(n0, d0, e0) ==
  IF n0 = 0 THEN Zero
  ELSE
    LET s  == Sign(n0) * Sign(d0)
        g  == Gcd(Abs(n0), Abs(d0))
        n1 == Abs(n0) \div g
        d1 == Abs(d0) \div g
        tn == Tens(n1)
        td == Tens(d1)
        n2 == n1 \div Pow10(tn)
        d2 == d1 \div Pow10(td)
        a  == Twos(d2)
        b  == Fives(d2)
        n3 == n2 * Pow(5, a) * Pow(2, b)
        d3 == d2 \div (Pow(2, a) * Pow(5, b))
        e3 == e0 + tn - td - a - b
    IN  IF Overflows(n3, d3, e3) THEN (IF s > 0 THEN Infinity ELSE NegInfinity)
        ELSE IF e3 + FloorLog10(n3, d3) < MinValueExp THEN Zero
        ELSE [k |-> "fin", n |-> s * n3, d |-> d3, e |-> e3]

\* The integer i as a number.
Num(i) == MkNum(i, 1, 0)

isNaN(x) == x.k = "nan"

isFinite(x) == x.k = "fin"

\* -1, 0 or 1 as x is negative, zero or positive (x not NaN).
SignOf(x) ==
  IF x.k = "inf" THEN 1 ELSE IF x.k = "ninf" THEN -1 ELSE Sign(x.n)

\* The sign of a - b for finite a and b.
CompareFinite(a, b) ==
  IF Sign(a.n) # Sign(b.n) THEN Sign(Sign(a.n) - Sign(b.n))
  ELSE IF a.n = 0 THEN 0
  ELSE
    LET s  == Sign(a.n)
        ma == a.e + FloorLog10(Abs(a.n), a.d)
        mb == b.e + FloorLog10(Abs(b.n), b.d)
    IN  IF ma # mb THEN s * Sign(ma - mb)
        ELSE LET lo == IF a.e < b.e THEN a.e ELSE b.e
             IN  s * Sign(Abs(a.n) * b.d * Pow10(a.e - lo)
                          - Abs(b.n) * a.d * Pow10(b.e - lo))

\* The sign of a - b where neither is NaN.
Compare(a, b) ==
  IF isFinite(a) /\ isFinite(b) THEN CompareFinite(a, b)
  ELSE IF a.k = b.k THEN 0
  ELSE IF a.k = "inf" \/ b.k = "ninf" THEN 1
  ELSE -1

\* The comparison operators: false when an operand is NaN.
Lt(a, b) == ~isNaN(a) /\ ~isNaN(b) /\ Compare(a, b) < 0

Le(a, b) == ~isNaN(a) /\ ~isNaN(b) /\ Compare(a, b) <= 0

Ge(a, b) == Le(b, a)

Gt(a, b) == Lt(b, a)

Neg(x) ==
  IF x.k = "inf" THEN NegInfinity
  ELSE IF x.k = "ninf" THEN Infinity
  ELSE IF x.k = "nan" THEN NaN
  ELSE [x EXCEPT !.n = -x.n]

MathAbs(x) == IF ~isNaN(x) /\ SignOf(x) < 0 THEN Neg(x) ELSE x

\* a * b
Mul(a, b) ==
  IF isNaN(a) \/ isNaN(b) THEN NaN
  ELSE IF isFinite(a) /\ isFinite(b) THEN MkNum(a.n * b.n, a.d * b.d, a.e + b.e)
  ELSE IF SignOf(a) = 0 \/ SignOf(b) = 0 THEN NaN
  ELSE IF SignOf(a) * SignOf(b) > 0 THEN Infinity ELSE NegInfinity

\* a / b
Div(a, b) ==
  IF isNaN(a) \/ isNaN(b) THEN NaN
  ELSE IF isFinite(a) /\ isFinite(b) THEN
    IF b.n = 0 THEN
      (IF a.n = 0 THEN NaN ELSE IF a.n > 0 THEN Infinity ELSE NegInfinity)
    ELSE MkNum(a.n * b.d, a.d * b.n, a.e - b.e)
  ELSE IF ~isFinite(a) /\ ~isFinite(b) THEN NaN
  ELSE IF isFinite(b) THEN
    (IF SignOf(a) * (IF SignOf(b) < 0 THEN -1 ELSE 1) > 0
     THEN Infinity ELSE NegInfinity)
  ELSE Zero

\* ------------------------------------------------------------------ strings

Digits == <<"0", "1", "2", "3", "4", "5", "6", "7", "8", "9">>

UpperCase == <<"A", "B", "C", "D", "E", "F", "G", "H", "I", "J", "K", "L", "M",
               "N", "O", "P", "Q", "R", "S", "T", "U", "V", "W", "X", "Y", "Z">>

LowerCase == <<"a", "b", "c", "d", "e", "f", "g", "h", "i", "j", "k", "l", "m",
               "n", "o", "p", "q", "r", "s", "t", "u", "v", "w", "x", "y", "z">>

WhiteSpace == {" ", "\t"}

IsDigit(c) == \E i \in 1..10 : Digits[i] = c

DigitValue(c) == (CHOOSE i \in 1..10 : Digits[i] = c) - 1

LowerChar(c) ==
  IF \E i \in 1..26 : UpperCase[i] = c
  THEN LowerCase[CHOOSE i \in 1..26 : UpperCase[i] = c]
  ELSE c

\* String.prototype.toLowerCase
toLowerCase(s) == [i \in 1..Len(s) |-> LowerChar(s[i])]

\* String.prototype.includes, for a one-character argument
includes(s, c) == \E i \in 1..Len(s) : s[i] = c

\* String.prototype.endsWith
endsWith(s, t) ==
  /\ Len(t) <= Len(s)
  /\ SubSeq(s, Len(s) - Len(t) + 1, Len(s)) = t

\* String.prototype.startsWith
startsWith(s, t) == Len(t) <= Len(s) /\ SubSeq(s, 1, Len(t)) = t

\* s.slice(0, -k) for k >= 1
sliceEnd(s, k) == IF k >= Len(s) THEN <<>> ELSE SubSeq(s, 1, Len(s) - k)

\* s without its first k characters
Drop(s, k) == IF k >= Len(s) THEN <<>> ELSE SubSeq(s, k + 1, Len(s))

\* The length of the run of white space, and of digits, that s starts with.
RECURSIVE SpanWhite(_)
SpanWhite(s) ==
  IF s # <<>> /\ Head(s) \in WhiteSpace THEN 1 + SpanWhite(Tail(s)) ELSE 0

RECURSIVE SpanDigits(_)
SpanDigits(s) ==
  IF s # <<>> /\ IsDigit(Head(s)) THEN 1 + SpanDigits(Tail(s)) ELSE 0

Reverse(s) == [i \in 1..Len(s) |-> s[Len(s) + 1 - i]]

\* String.prototype.trim
trim(s) ==
  LET a == Drop(s, SpanWhite(s))
  IN  sliceEnd(a, SpanWhite(Reverse(a)))

\* The value of a run of decimal digits.
RECURSIVE DigitsValue(_)
DigitsValue(s) ==
  IF s = <<>> THEN 0
  ELSE 10 * DigitsValue(SubSeq(s, 1, Len(s) - 1)) + DigitValue(s[Len(s)])

\* The decimal digits of i >= 0.
RECURSIVE IntToString(_)
IntToString(i) ==
  IF i < 10 THEN <<Digits[i + 1]>>
  ELSE Append(IntToString(i \div 10), Digits[(i % 10) + 1])

RECURSIVE Zeros(_)
Zeros(k) == IF k <= 0 THEN <<>> ELSE <<"0">> \o Zeros(k - 1)

InfinityText == <<"I", "n", "f", "i", "n", "i", "t", "y">>

HasSign(s) == s # <<>> /\ Head(s) \in {"-", "+"}

Unsigned(s) == IF HasSign(s) THEN Tail(s) ELSE s

\* What parseFloat found: nothing, Infinity, or a decimal literal with its
\* sign, the digits of its integer and fraction parts and its exponent;
\* used is the number of characters it read.
NoLiteral ==
  [kind |-> "none", neg |-> FALSE, int |-> <<>>, frac |-> <<>>, exp |-> 0,
   used |-> 0]

InfinityLiteral(neg, used) ==
  [kind |-> "infinity", neg |-> neg, int |-> <<>>, frac |-> <<>>, exp |-> 0,
   used |-> used]

DecimalLiteral(neg, int, frac, exp, used) ==
  [kind |-> "decimal", neg |-> neg, int |-> int, frac |-> frac, exp |-> exp,
   used |-> used]

\* The digits of the exponent that follows an e: none unless a digit follows
\* the optional sign.
ExponentDigits(g) == SubSeq(Unsigned(g), 1, SpanDigits(Unsigned(g)))

ExponentValue(g) ==
  (IF g # <<>> /\ Head(g) = "-" THEN -1 ELSE 1) * DigitsValue(ExponentDigits(g))

\* The ExponentPart at the start of f, if there is one.
ScanExponent(f, neg, int, frac, used) ==
  IF f # <<>> /\ Head(f) \in {"e", "E"} /\ ExponentDigits(Tail(f)) # <<>>
  THEN DecimalLiteral(neg, int, frac, ExponentValue(Tail(f)),
                      used + 1 + (Len(Tail(f)) - Len(Unsigned(Tail(f))))
                           + Len(ExponentDigits(Tail(f))))
  ELSE DecimalLiteral(neg, int, frac, 0, used)

\* The digits after the point at the start of c; no point is <<"none">>.
FractionDigits(c) ==
  IF c # <<>> /\ Head(c) = "." THEN SubSeq(Tail(c), 1, SpanDigits(Tail(c)))
  ELSE <<"none">>

\* il digits start b; frac is what FractionDigits found after them.
ScanMantissa(b, neg, used, il, frac) ==
  IF frac = <<"none">>
  THEN (IF il = 0 THEN NoLiteral
        ELSE ScanExponent(Drop(b, il), neg, SubSeq(b, 1, il), <<>>, used + il))
  ELSE IF il + Len(frac) = 0 THEN NoLiteral
  ELSE ScanExponent(Drop(b, il + 1 + Len(frac)), neg, SubSeq(b, 1, il), frac,
                    used + il + 1 + Len(frac))

\* b follows the sign.
ScanUnsigned(b, neg, used) ==
  IF startsWith(b, InfinityText) THEN InfinityLiteral(neg, used + 8)
  ELSE ScanMantissa(b, neg, used, SpanDigits(b),
                    FractionDigits(Drop(b, SpanDigits(b))))

\* a follows the white space.
ScanSigned(a, used) ==
  ScanUnsigned(Unsigned(a), a # <<>> /\ Head(a) = "-",
               used + Len(a) - Len(Unsigned(a)))

\* The longest prefix of s, after leading white space, that is a
\* StrDecimalLiteral.
ScanFloat(s) == ScanSigned(Drop(s, SpanWhite(s)), SpanWhite(s))

\* The value of a decimal literal.
LiteralValue(r) ==
  MkNum((IF r.neg THEN -1 ELSE 1) * DigitsValue(r.int \o r.frac), 1,
        r.exp - Len(r.frac))

FloatOf(r) ==
  IF r.kind = "none" THEN NaN
  ELSE IF r.kind = "infinity" THEN (IF r.neg THEN NegInfinity ELSE Infinity)
  ELSE LiteralValue(r)

\* parseFloat
parseFloat(s) == FloatOf(ScanFloat(s))

\* ---------------------------------------------------- numbers to strings

\* The first p digits of N / D (1 <= N / D < 10), by long division, and the
\* remainder left after them.
RECURSIVE LongDiv(_, _, _)
LongDiv(N, D, p) ==
  IF p = 0 THEN [digits |-> <<>>, rem |-> N]
  ELSE LET r == LongDiv((N % D) * 10, D, p - 1)
       IN  [digits |-> <<N \div D>> \o r.digits, rem |-> r.rem]

\* A run of digits plus one in its last place; carry is set when the run
\* was all nines (the result is then all zeros).
RECURSIVE Increment(_)
Increment(ds) ==
  IF ds = <<>> THEN [digits |-> <<>>, carry |-> TRUE]
  ELSE LET last == ds[Len(ds)]
           init == SubSeq(ds, 1, Len(ds) - 1)
       IN  IF last < 9 THEN [digits |-> Append(init, last + 1), carry |-> FALSE]
           ELSE LET r == Increment(init)
                IN  [digits |-> Append(r.digits, 0), carry |-> r.carry]

\* For finite x > 0: the p digits n and the exponent e with n * 10^(e-p+1)
\* nearest to x, the larger one on a tie (Number.prototype.toPrecision,
\* step 10.a).
RoundedDigits(x, p) ==
  LET m  == FloorLog10(x.n, x.d)
      N  == IF m >= 0 THEN x.n ELSE x.n * Pow10(-m)
      D  == IF m >= 0 THEN x.d * Pow10(m) ELSE x.d
      r  == LongDiv(N, D, p)
      up == r.rem >= 5 * D          \* the next digit is 5 or more
      i  == Increment(r.digits)
  IN  IF ~up THEN [digits |-> r.digits, exp |-> x.e + m]
      ELSE IF ~i.carry THEN [digits |-> i.digits, exp |-> x.e + m]
      ELSE [digits |-> <<1>> \o SubSeq(i.digits, 1, p - 1), exp |-> x.e + m + 1]

DigitChars(ds) == [i \in 1..Len(ds) |-> Digits[ds[i] + 1]]

RECURSIVE StripZeros(_)
StripZeros(ds) ==
  IF Len(ds) > 1 /\ ds[Len(ds)] = 0
  THEN StripZeros(SubSeq(ds, 1, Len(ds) - 1)) ELSE ds

\* "e+21", "e-7"
ExponentText(e) ==
  <<"e", IF e >= 0 THEN "+" ELSE "-">> \o IntToString(Abs(e))

\* Number.prototype.toPrecision(p)
toPrecision(x, p) ==
  IF isNaN(x) THEN <<"N", "a", "N">>
  ELSE IF x.k = "inf" THEN InfinityText
  ELSE IF x.k = "ninf" THEN <<"-">> \o InfinityText
  ELSE
    LET s  == IF x.n < 0 THEN <<"-">> ELSE <<>>
        r  == IF x.n = 0 THEN [digits |-> [i \in 1..p |-> 0], exp |-> 0]
              ELSE RoundedDigits(MathAbs(x), p)
        m  == DigitChars(r.digits)
        e  == r.exp
    IN  IF e < -6 \/ e >= p
        THEN s \o <<m[1]>>
               \o (IF p > 1 THEN <<".">> \o Tail(m) ELSE <<>>)
               \o ExponentText(e)
        ELSE IF e = p - 1 THEN s \o m
        ELSE IF e >= 0
        THEN s \o SubSeq(m, 1, e + 1) \o <<".">> \o SubSeq(m, e + 2, p)
        ELSE s \o <<"0", ".">> \o Zeros(-(e + 1)) \o m

\* The number of significant digits Number.prototype.toString prints at most.
MaxToStringDigits == 17

\* Number.prototype.toString: the shortest digits that denote x (all of
\* them for a terminating decimal, 17 otherwise), placed as the language does.
NumberToString(x) ==
  IF isNaN(x) THEN <<"N", "a", "N">>
  ELSE IF x.k = "inf" THEN InfinityText
  ELSE IF x.k = "ninf" THEN <<"-">> \o InfinityText
  ELSE IF x.n = 0 THEN <<"0">>
  ELSE
    LET s  == IF x.n < 0 THEN <<"-">> ELSE <<>>
        a  == MathAbs(x)
        r  == IF a.d = 1
              THEN [digits |-> [i \in 1..Len(IntToString(a.n)) |->
                                  DigitValue(IntToString(a.n)[i])],
                    exp |-> a.e + Len(IntToString(a.n)) - 1]
              ELSE LET q == RoundedDigits(a, MaxToStringDigits)
                   IN  [digits |-> StripZeros(q.digits), exp |-> q.exp]
        m  == DigitChars(r.digits)
        k  == Len(m)
        n  == r.exp + 1
    IN  IF k <= n /\ n <= 21 THEN s \o m \o Zeros(n - k)
        ELSE IF 0 < n /\ n <= 21
        THEN s \o SubSeq(m, 1, n) \o <<".">> \o SubSeq(m, n + 1, k)
        ELSE IF -6 < n /\ n <= 0 THEN s \o <<"0", ".">> \o Zeros(-n) \o m
        ELSE s \o <<m[1]>>
               \o (IF k > 1 THEN <<".">> \o Tail(m) ELSE <<>>)
               \o ExponentText(n - 1)

\* -------------------------------------------------------------- rune-core

\* A warning is a string or null.  The fixed words of a message are kept as
\* one element; null is the empty sequence (no message is the empty string).
null == <<>>

\* The entries as they are, the base case among them.
NonEmptyKeys_All(entries) == entries

\* Array.prototype.filter(([key]) => key !== '')
RECURSIVE NonEmptyKeys(_)
NonEmptyKeys(entries) ==
  IF entries = <<>> THEN <<>>
  ELSE IF Head(entries)[1] # <<>>
  THEN <<Head(entries)>> \o NonEmptyKeys(Tail(entries))
  ELSE NonEmptyKeys(Tail(entries))

\* The comparator with its operands exchanged: a - b.
CompareDesc_Ascending(x, y) == Compare(x[2], y[2])

\* The comparator ([, a], [, b]) => b - a: its sign.
CompareDesc(x, y) == Compare(y[2], x[2])

\* x put into a sorted array after every element that does not sort after it.
RECURSIVE InsertSorted(_, _)
InsertSorted(sorted, x) ==
  IF sorted = <<>> THEN <<x>>
  ELSE IF CompareDesc(Head(sorted), x) <= 0
  THEN <<Head(sorted)>> \o InsertSorted(Tail(sorted), x)
  ELSE <<x>> \o sorted

\* Array.prototype.sort with CompareDesc: a stable sort.
RECURSIVE SortDesc(_)
SortDesc(entries) ==
  IF entries = <<>> THEN <<>>
  ELSE InsertSorted(SortDesc(SubSeq(entries, 1, Len(entries) - 1)),
                    entries[Len(entries)])

\* The loop of buildScaleUtils with the test of a conflict one too low:
\* length > 0.
RECURSIVE BuildLowerCase_Eager(_, _, _)
BuildLowerCase_Eager(entries, map, conflicts) ==
  IF entries = <<>> THEN [map |-> map, conflicts |-> conflicts]
  ELSE BuildLowerCase_Eager(
         Tail(entries),
         [(IF toLowerCase(Head(entries)[1]) \in DOMAIN map THEN map
           ELSE (toLowerCase(Head(entries)[1]) :> <<>>) @@ map)
            EXCEPT ![toLowerCase(Head(entries)[1])] =
                     Append(@, Head(entries)[1])],
         conflicts \cup {toLowerCase(Head(entries)[1])})

\* The loop of buildScaleUtils over the sorted entries: the lower-case
\* mapping and the conflicts it leaves.
RECURSIVE BuildLowerCase(_, _, _)
BuildLowerCase(entries, map, conflicts) ==
  IF entries = <<>> THEN [map |-> map, conflicts |-> conflicts]
  ELSE
    LET suffix == Head(entries)[1]
        lower  == toLowerCase(suffix)
        m1     == IF lower \in DOMAIN map THEN map ELSE (lower :> <<>>) @@ map
        m2     == [m1 EXCEPT ![lower] = Append(@, suffix)]
    IN  BuildLowerCase(Tail(entries), m2,
                       IF Len(m2[lower]) > 1 THEN conflicts \cup {lower}
                       ELSE conflicts)

\* buildScaleUtils(scales); scales is the array Object.entries gives, the
\* keys in insertion order.
buildScaleUtils(scales) ==
  LET scaleEntries == SortDesc(NonEmptyKeys(scales))
      built        == BuildLowerCase(scaleEntries, <<>>, {})
  IN  [scaleEntries |-> <<<< <<>>, Num(1) >>>> \o scaleEntries,
       lowerCaseScaleMap |-> built.map,
       conflictingLowerCaseSuffixes |-> built.conflicts]

\* SuffixMatches that compares the letters as they are typed.
SuffixMatches_CaseSensitive(trimmed, scaleSuffix) ==
  scaleSuffix # <<>> /\ endsWith(trimmed, scaleSuffix)

\* The test of the suffix loop: a non-empty suffix that the text ends with,
\* letter case aside.
SuffixMatches(trimmed, scaleSuffix) ==
  /\ scaleSuffix # <<>>
  /\ endsWith(toLowerCase(trimmed), toLowerCase(scaleSuffix))

\* AcceptedEntries without the test of what is before the suffix.
AcceptedEntries_AnyPrefix(trimmed, su) ==
  { i \in 1..Len(su.scaleEntries) :
      SuffixMatches(trimmed, su.scaleEntries[i][1]) }

\* The entries at which the suffix loop would break.
AcceptedEntries(trimmed, su) ==
  { i \in 1..Len(su.scaleEntries) :
      /\ SuffixMatches(trimmed, su.scaleEntries[i][1])
      /\ isFinite(parseFloat(sliceEnd(trimmed, Len(su.scaleEntries[i][1])))) }

\* The last entry where the code takes the first: a loop without its break.
Min_Last(S) == CHOOSE i \in S : \A j \in S : i >= j

Min(S) == CHOOSE i \in S : \A j \in S : i <= j

\* Array.prototype.join
RECURSIVE join(_, _)
join(strings, sep) ==
  IF strings = <<>> THEN <<>>
  ELSE IF Len(strings) = 1 THEN strings[1]
  ELSE strings[1] \o sep \o join(Tail(strings), sep)

\* Array.prototype.filter(s => s !== suffix)
RECURSIVE Others(_, _)
Others(strings, suffix) ==
  IF strings = <<>> THEN <<>>
  ELSE IF Head(strings) # suffix
  THEN <<Head(strings)>> \o Others(Tail(strings), suffix)
  ELSE Others(Tail(strings), suffix)

AmbiguousWarning(suffix, alternatives) ==
  <<"Ambiguous suffix \"">> \o suffix \o <<"\" - could also mean: ">>
    \o join(alternatives, <<", ">>)

\* PlainResult without the check of what parseFloat returned.
PlainResult_Unchecked(num, invalid) == [value |-> num, warning |-> null]

\* The end of both paths without a suffix: num is what parseFloat made of
\* the trimmed text.
PlainResult(num, invalid) ==
  IF isNaN(num) \/ ~isFinite(num) THEN [value |-> Zero, warning |-> invalid]
  ELSE [value |-> num, warning |-> null]

\* The scientific-notation path of parseScaled.
ParseScientific(trimmed) ==
  PlainResult(parseFloat(trimmed), <<"Invalid scientific notation">>)

\* SuffixWarning without the filter that leaves the matched suffix out.
SuffixWarning_Unfiltered(suffix, su) ==
  IF toLowerCase(suffix) \in su.conflictingLowerCaseSuffixes
  THEN AmbiguousWarning(suffix, su.lowerCaseScaleMap[toLowerCase(suffix)])
  ELSE null

\* The warning for a matched suffix: the other members of its lower-case
\* group, if it has any.
SuffixWarning(suffix, su) ==
  IF /\ toLowerCase(suffix) \in su.conflictingLowerCaseSuffixes
     /\ Len(Others(su.lowerCaseScaleMap[toLowerCase(suffix)], suffix)) > 0
  THEN AmbiguousWarning(suffix,
         Others(su.lowerCaseScaleMap[toLowerCase(suffix)], suffix))
  ELSE null

\* ScaledResult without the check of the product.
ScaledResult_Unchecked(result, suffix, su) ==
  [value |-> result, warning |-> SuffixWarning(suffix, su)]

ScaledResult(result, suffix, su) ==
  IF ~isFinite(result) THEN [value |-> Zero, warning |-> <<"Result too large">>]
  ELSE [value |-> result, warning |-> SuffixWarning(suffix, su)]

\* SuffixResult that leaves the multiplier out of the product.
SuffixResult_Unscaled(baseNum, suffix, multiplier, su) ==
  IF isNaN(baseNum) \/ ~isFinite(baseNum)
  THEN [value |-> Zero, warning |-> <<"Invalid number part before suffix">>]
  ELSE ScaledResult(baseNum, suffix, su)

\* The end of parseScaled once the loop has set suffix and multiplier.
SuffixResult(baseNum, suffix, multiplier, su) ==
  IF isNaN(baseNum) \/ ~isFinite(baseNum)
  THEN [value |-> Zero, warning |-> <<"Invalid number part before suffix">>]
  ELSE ScaledResult(Mul(baseNum, multiplier), suffix, su)

\* ParseAccepted that takes a text without a suffix with Number(), all of
\* it or nothing, where the code takes it with parseFloat.
ParseAccepted_WholeText(trimmed, su, accepted) ==
  IF accepted = {}
  THEN (IF ScanFloat(trimmed).used = Len(trimmed)
        THEN PlainResult(parseFloat(trimmed), <<"Invalid number format">>)
        ELSE [value |-> Zero, warning |-> <<"Invalid number format">>])
  ELSE SuffixResult(
         parseFloat(sliceEnd(trimmed, Len(su.scaleEntries[Min(accepted)][1]))),
         su.scaleEntries[Min(accepted)][1], su.scaleEntries[Min(accepted)][2],
         su)

\* The suffix path of parseScaled; accepted are the entries at which the
\* loop would break, and it breaks at the first.
ParseAccepted(trimmed, su, accepted) ==
  IF accepted = {}
  THEN PlainResult(parseFloat(trimmed), <<"Invalid number format">>)
  ELSE SuffixResult(
         parseFloat(sliceEnd(trimmed, Len(su.scaleEntries[Min(accepted)][1]))),
         su.scaleEntries[Min(accepted)][1], su.scaleEntries[Min(accepted)][2],
         su)

ParseSuffixed(trimmed, su) ==
  ParseAccepted(trimmed, su, AcceptedEntries(trimmed, su))

\* IsScientific looking for the lower-case e alone.
IsScientific_LowerOnly(trimmed) == includes(trimmed, "e")

\* Whether parseScaled takes the scientific-notation path.
IsScientific(trimmed) == includes(trimmed, "e") \/ includes(trimmed, "E")

\* parseScaled(input, su)
ParseTrimmed(trimmed, su) ==
  IF trimmed = <<>> THEN [value |-> Zero, warning |-> <<"Empty input">>]
  ELSE IF IsScientific(trimmed) THEN ParseScientific(trimmed)
  ELSE ParseSuffixed(trimmed, su)

parseScaled(input, su) == ParseTrimmed(trim(input), su)

\* FormatEntries that asks for more than the multiplier.
FormatEntries_Strict(absNum, su) ==
  { i \in 1..Len(su.scaleEntries) :
      /\ su.scaleEntries[i][1] # <<>>
      /\ Gt(absNum, su.scaleEntries[i][2]) }

\* The entries the loop of formatScaled would return at.
FormatEntries(absNum, su) ==
  { i \in 1..Len(su.scaleEntries) :
      /\ su.scaleEntries[i][1] # <<>>
      /\ Ge(absNum, su.scaleEntries[i][2]) }

\* The precision formatScaled asks of toPrecision.
FormatPrecision == 3

\* The magnitude below which formatScaled uses no suffix.
FormatSmall == 1000

\* The end of formatScaled for a finite num of 1000 or more; entries are
\* the entries at which the loop would return, and it returns at the first.
FormatWith(num, absNum, su, entries) ==
  IF entries # {}
  THEN (IF Lt(num, Zero) THEN <<"-">> ELSE <<>>)
         \o toPrecision(Div(absNum, su.scaleEntries[Min(entries)][2]),
                        FormatPrecision)
         \o <<" ">> \o su.scaleEntries[Min(entries)][1]
  ELSE NumberToString(num)

\* formatScaled(num, su)
formatScaled(num, su) ==
  IF ~isFinite(num) \/ num = Zero THEN NumberToString(num)
  ELSE IF Lt(MathAbs(num), Num(FormatSmall)) THEN NumberToString(num)
  ELSE FormatWith(num, MathAbs(num), su, FormatEntries(MathAbs(num), su))

\* timeSeconds without the guard on chanceN.
timeSeconds_NoChanceGuard(rps, luck, chanceN) ==
  IF Le(rps, Zero) \/ Le(luck, Zero) THEN Infinity
  ELSE Div(chanceN, Mul(rps, luck))

\* timeSeconds(rps, luck, chanceN)
timeSeconds(rps, luck, chanceN) ==
  IF Le(rps, Zero) \/ Le(luck, Zero) \/ Le(chanceN, Zero) THEN Infinity
  ELSE Div(chanceN, Mul(rps, luck))

\* A record of the code with an optional property left out is a record
\* without that field: opts.text is undefined when "text" is not in DOMAIN
\* opts, rune.time when "time" is not in DOMAIN rune.
Has(object, key) == key \in DOMAIN object

\* String.prototype.includes: t is found somewhere in s.
includesText(s, t) ==
  \E i \in 0..(Len(s) - Len(t)) : SubSeq(s, i + 1, i + Len(t)) = t

\* The callback of runes.map with isSpecial true.
ProcessedOf_Special(rune, rps, luck) ==
  [time |-> timeSeconds(rps, luck, rune.chance.n), isSpecial |-> TRUE] @@ rune

\* The callback of runes.map: { ...rune, time, isSpecial: false }.
ProcessedOf(rune, rps, luck) ==
  [time |-> timeSeconds(rps, luck, rune.chance.n), isSpecial |-> FALSE]
    @@ rune

\* The callback of the text filter that looks at the name only.
MatchesText_NameOnly(rune, searchText) ==
  includesText(toLowerCase(rune.name), searchText)

\* The callback of the text filter.
MatchesText(rune, searchText) ==
  \/ includesText(toLowerCase(rune.name), searchText)
  \/ includesText(toLowerCase(rune.sourceNote), searchText)

\* The callback of the hide-instant filter with > in the place of >=.
KeepsTimed_Above(rune) ==
  ~Has(rune, "time") \/ Gt(rune.time, Num(1))

\* The callback of the hide-instant filter.
KeepsTimed(rune) ==
  ~Has(rune, "time") \/ Ge(rune.time, Num(1))

\* a.time ?? Infinity
TimeOrInfinity(rune) == IF Has(rune, "time") THEN rune.time ELSE Infinity

\* The sign of a - b as sort sees it: Infinity - Infinity is NaN, which sort
\* takes for 0, and so is every difference with NaN.
DifferenceSign(a, b) ==
  IF isNaN(a) \/ isNaN(b) THEN 0 ELSE Compare(a, b)

\* The comparator of the sort that does not look at opts.sort.
CompareTimes_Ascending(a, b, sort) ==
  DifferenceSign(TimeOrInfinity(a), TimeOrInfinity(b))

\* The comparator of the sort: timeA - timeB for 'asc', else timeB - timeA.
CompareTimes(a, b, sort) ==
  IF sort = "asc" THEN DifferenceSign(TimeOrInfinity(a), TimeOrInfinity(b))
  ELSE DifferenceSign(TimeOrInfinity(b), TimeOrInfinity(a))

\* x put into a sorted array before the elements it compares equal to: a
\* sort that is not stable.
RECURSIVE InsertByTime_Before(_, _, _)
InsertByTime_Before(sorted, x, sort) ==
  IF sorted = <<>> THEN <<x>>
  ELSE IF CompareTimes(Head(sorted), x, sort) < 0
  THEN <<Head(sorted)>> \o InsertByTime_Before(Tail(sorted), x, sort)
  ELSE <<x>> \o sorted

\* x put into a sorted array after every element that does not sort after it.
RECURSIVE InsertByTime(_, _, _)
InsertByTime(sorted, x, sort) ==
  IF sorted = <<>> THEN <<x>>
  ELSE IF CompareTimes(Head(sorted), x, sort) <= 0
  THEN <<Head(sorted)>> \o InsertByTime(Tail(sorted), x, sort)
  ELSE <<x>> \o sorted

\* processed.sort with CompareTimes: a stable sort.
RECURSIVE SortByTime(_, _)
SortByTime(processed, sort) ==
  IF processed = <<>> THEN <<>>
  ELSE InsertByTime(SortByTime(SubSeq(processed, 1, Len(processed) - 1), sort),
                    processed[Len(processed)], sort)

\* if (opts.text) { ... }
FilterText(processed, opts) ==
  IF Has(opts, "text") /\ opts.text # <<>>
  THEN SelectSeq(processed,
                 LAMBDA rune : MatchesText(rune, toLowerCase(opts.text)))
  ELSE processed

\* if (opts.hideInstant) { ... }
FilterInstant(processed, opts) ==
  IF Has(opts, "hideInstant") /\ opts.hideInstant
  THEN SelectSeq(processed, KeepsTimed)
  ELSE processed

\* if (opts.sort) { ... }
SortProcessed(processed, opts) ==
  IF Has(opts, "sort") THEN SortByTime(processed, opts.sort) ELSE processed

\* processRunes(runes, rps, luck, opts)
processRunes(runes, rps, luck, opts) ==
  SortProcessed(
    FilterInstant(
      FilterText([i \in 1..Len(runes) |-> ProcessedOf(runes[i], rps, luck)],
                 opts),
      opts),
    opts)

\* The arrays of a call of processRunes: runes is what the caller's array
\* holds, processed what the array of the variable processed holds, shared
\* whether the two are one array.
\* A step that writes its result into the array it was given.
NewArray_InPlace(arrays, contents) ==
  [arrays EXCEPT !.processed = contents,
                 !.runes = IF arrays.shared THEN contents ELSE @]

\* map and filter: processed becomes a new array of the contents given.
NewArray(arrays, contents) ==
  [arrays EXCEPT !.processed = contents, !.shared = FALSE]

\* processed.sort(...) sorts the array of processed where it is.
SortArray(arrays, opts) ==
  [arrays EXCEPT !.processed = SortProcessed(@, opts),
                 !.runes = IF arrays.shared THEN SortProcessed(@, opts)
                           ELSE @]

\* The arrays when processRunes(runes, rps, luck, opts) returns.
processRunesArrays(runes, rps, luck, opts) ==
  SortArray(
    NewArray(
      NewArray([runes |-> runes, processed |-> runes, shared |-> TRUE],
               [i \in 1..Len(runes) |-> ProcessedOf(runes[i], rps, luck)]),
      FilterInstant(
        FilterText([i \in 1..Len(runes) |-> ProcessedOf(runes[i], rps, luck)],
                   opts),
        opts)),
    opts)

\* The callback of find with a window that begins above 0.
IsCandidate_FromZero(rune) ==
  Has(rune, "time") /\ Gt(rune.time, Zero) /\ Lt(rune.time, Num(3600))

\* The callback of find with an hour itself still under the hour.
IsCandidate_Inclusive(rune) ==
  Has(rune, "time") /\ Ge(rune.time, Num(1)) /\ Le(rune.time, Num(3600))

\* The callback of find in findNextUnderHour.
IsCandidate(rune) ==
  Has(rune, "time") /\ Ge(rune.time, Num(1)) /\ Lt(rune.time, Num(3600))

\* findNextUnderHour(processed): candidate?.id ?? null
findNextUnderHour(processed) ==
  IF \E i \in 1..Len(processed) : IsCandidate(processed[i])
  THEN processed[CHOOSE i \in 1..Len(processed) :
                   /\ IsCandidate(processed[i])
                   /\ \A j \in 1..(i - 1) : ~IsCandidate(processed[j])].id
  ELSE null

\* ---------------------------------------------------------- lib/formatters

\* A whole number of any size is the sequence of its decimal digits, the
\* first one not 0 (0 itself is <<0>>).

\* The digits of the integer i >= 0.
RECURSIVE NatDigits(_)
NatDigits(i) ==
  IF i < 10 THEN <<i>> ELSE Append(NatDigits(i \div 10), i % 10)

\* The integer of a run of digits that is small enough to be one.
RECURSIVE NatValue(_)
NatValue(ds) ==
  IF ds = <<>> THEN 0
  ELSE 10 * NatValue(SubSeq(ds, 1, Len(ds) - 1)) + ds[Len(ds)]

RECURSIVE NatZeros(_)
NatZeros(k) == IF k <= 0 THEN <<>> ELSE <<0>> \o NatZeros(k - 1)

RECURSIVE StripLeadingZeros(_)
StripLeadingZeros(ds) ==
  IF Len(ds) > 1 /\ Head(ds) = 0 THEN StripLeadingZeros(Tail(ds)) ELSE ds

\* Long division of the digits ds by the integer y, the digit cur being the
\* one at hand: the quotient's digits so far are q, the remainder is rem.
RECURSIVE DivideDigits(_, _, _, _)
DivideDigits(ds, y, rem, q) ==
  IF ds = <<>> THEN [q |-> StripLeadingZeros(q), rem |-> rem]
  ELSE DivideDigits(Tail(ds), y, (rem * 10 + Head(ds)) % y,
                    Append(q, (rem * 10 + Head(ds)) \div y))

\* The whole quotient and the remainder of ds by y > 0, both exact.
NatDivMod(ds, y) == DivideDigits(ds, y, 0, <<>>)

\* ds >= y, for an integer y.
NatGe(ds, y) ==
  \/ Len(ds) > Len(NatDigits(y))
  \/ Len(ds) = Len(NatDigits(y)) /\ NatValue(ds) >= y

\* floor(log2(ds)) for ds >= 1.
RECURSIVE NatLog2(_)
NatLog2(ds) ==
  IF ds = <<1>> THEN 0 ELSE 1 + NatLog2(NatDivMod(ds, 2).q)

\* The digits of ds + 1.
NatSucc(ds) ==
  IF Increment(ds).carry THEN <<1>> \o Increment(ds).digits
  ELSE Increment(ds).digits

\* Math.floor(x) for a finite x >= 1.
MathFloor(x) ==
  IF x.e >= 0 THEN NatDivMod(NatDigits(x.n) \o NatZeros(x.e), x.d).q
  ELSE NatDigits(x.n \div (x.d * Pow10(-x.e)))

\* The bits of the significand of a double.
SignificandBits == 53

\* The quotient of two whole doubles, remaining = q * y + rem with q >= 1,
\* is rounded to the nearest double before Math.floor sees it.  Doubles of
\* the size of q lie 2^(floor(log2 q) - 52) apart, so the quotient becomes
\* q + 1 when (y - rem) / y is at most half of that (a tie goes to q + 1,
\* the even one), q being below 2^52.
RoundsUp(q, rem, y) ==
  /\ rem > 0
  /\ NatLog2(q) < SignificandBits - 1
  /\ SignificandBits - NatLog2(q) <= NatLog2(NatDigits(y \div (y - rem)))

\* Math.floor(remaining / unit.seconds), from the exact quotient and
\* remainder dm of the two.
FloorQuotient(dm, y) ==
  IF RoundsUp(dm.q, dm.rem, y) THEN NatSucc(dm.q) ELSE dm.q

TIME_UNITS ==
  << [name |-> <<"y", "e", "a", "r">>, seconds |-> 31557600],
     [name |-> <<"d", "a", "y">>, seconds |-> 86400],
     [name |-> <<"h", "o", "u", "r">>, seconds |-> 3600],
     [name |-> <<"m", "i", "n", "u", "t", "e">>, seconds |-> 60],
     [name |-> <<"s", "e", "c", "o", "n", "d">>, seconds |-> 1] >>

\* `${count} ${unitName}`, the name with an s unless count === 1.
PartText(count, name) ==
  DigitChars(count) \o <<" ">> \o name
    \o (IF count = <<1>> THEN <<>> ELSE <<"s">>)

\* The most parts formatTimeHuman shows.
MaxParts == 3

\* The loop of formatTimeHuman over the units left, with what remains of
\* the seconds and the parts pushed so far.
RECURSIVE TimeParts(_, _, _)
RECURSIVE PushPart(_, _, _)
TimeParts(remaining, units, parts) ==
  IF units = <<>> THEN parts
  ELSE IF NatGe(remaining, Head(units).seconds)
  THEN PushPart(NatDivMod(remaining, Head(units).seconds), units, parts)
  ELSE TimeParts(remaining, Tail(units), parts)

\* The body of the loop for a unit that fits: count, remaining, the push and
\* the break at the third part.
PushPart(dm, units, parts) ==
  IF Len(parts) + 1 >= MaxParts
  THEN Append(parts, PartText(FloorQuotient(dm, Head(units).seconds),
                              Head(units).name))
  ELSE TimeParts(NatDigits(dm.rem), Tail(units),
                 Append(parts, PartText(FloorQuotient(dm, Head(units).seconds),
                                        Head(units).name)))

Never == <<"N", "e", "v", "e", "r">>

Instant == <<"I", "n", "s", "t", "a", "n", "t">>

\* The ellipsis character.
Ellipsis == <<"...">>

\* 1e15 * 365.25 * 24 * 60 * 60
TimeThreshold ==
  Mul(Mul(Mul(Mul(MkNum(1, 1, 15), MkNum(36525, 1, -2)), Num(24)), Num(60)),
      Num(60))

\* The end of formatTimeHuman: the parts joined, or Instant when there are
\* none.
JoinParts(parts) ==
  IF Len(parts) = 0 THEN Instant ELSE join(parts, <<",", " ">>)

\* formatTimeHuman that looks at the size before it looks at finiteness.
formatTimeHuman_SizeFirst(seconds) ==
  IF Lt(seconds, Num(1)) THEN Instant
  ELSE IF Gt(seconds, TimeThreshold) THEN Ellipsis
  ELSE IF ~isFinite(seconds) THEN Never
  ELSE JoinParts(TimeParts(MathFloor(seconds), TIME_UNITS, <<>>))

\* formatTimeHuman(seconds)
formatTimeHuman(seconds) ==
  IF ~isFinite(seconds) THEN Never
  ELSE IF Lt(seconds, Num(1)) THEN Instant
  ELSE IF Gt(seconds, TimeThreshold) THEN Ellipsis
  ELSE JoinParts(TimeParts(MathFloor(seconds), TIME_UNITS, <<>>))

\* ------------------------------------------------------------ the inputs

\* The scale tables: each the entries of a scales object in insertion order.
\* The one of the core's tests, with the case variants k and K.
TestScales ==
  << << <<>>, Num(1) >>, << <<"k">>, MkNum(1, 1, 3) >>,
     << <<"K">>, MkNum(1, 1, 3) >>, << <<"M">>, MkNum(1, 1, 6) >>,
     << <<"B">>, MkNum(1, 1, 9) >>, << <<"T">>, MkNum(1, 1, 12) >> >>

\* Suffixes that hold the letter e, as the panel's placeholder "1SxDe" has.
LongScales ==
  << << <<>>, Num(1) >>, << <<"K">>, MkNum(1, 1, 3) >>,
     << <<"D", "e">>, MkNum(1, 1, 33) >>,
     << <<"S", "x", "D", "e">>, MkNum(1, 1, 51) >> >>

\* A suffix that ends with another suffix of a larger multiplier.
NestedScales ==
  << << <<>>, Num(1) >>, << <<"K", "M">>, MkNum(1, 1, 3) >>,
     << <<"M">>, MkNum(1, 1, 6) >> >>

\* Case variants with different multipliers, and multipliers near the end
\* of the finite range.
HugeScales ==
  << << <<>>, Num(1) >>, << <<"m">>, MkNum(1, 1, 3) >>,
     << <<"M">>, MkNum(1, 1, 6) >>, << <<"u">>, MkNum(1, 1, 306) >>,
     << <<"U">>, MkNum(1, 1, 306) >>, << <<"V">>, MkNum(1, 1, 307) >> >>

\* The base case in the middle of the object.
MiddleScales ==
  << << <<"K">>, MkNum(1, 1, 3) >>, << <<>>, Num(1) >>,
     << <<"M">>, MkNum(1, 1, 6) >> >>

\* No base case, and a multiplier under 1000.
BaselessScales ==
  << << <<"h">>, MkNum(1, 1, 2) >>, << <<"K">>, MkNum(1, 1, 3) >> >>

ScaleTables ==
  {TestScales, LongScales, NestedScales, HugeScales, MiddleScales,
   BaselessScales}

UpperChar(c) ==
  IF \E i \in 1..26 : LowerCase[i] = c
  THEN UpperCase[CHOOSE i \in 1..26 : LowerCase[i] = c]
  ELSE c

toUpperCase(s) == [i \in 1..Len(s) |-> UpperChar(s[i])]

\* What a user may type after a number: the suffixes of the table as they
\* are, in lower and in upper case, and a few other texts.
TailTokens(scales) ==
  LET suffixes == { scales[i][1] : i \in 1..Len(scales) } \ {<<>>}
  IN  suffixes \cup { toLowerCase(t) : t \in suffixes }
               \cup { toUpperCase(t) : t \in suffixes }
               \cup { <<"x">>, <<" ">> }

\* The most tokens after the number of an input.
MaxTail == 1

RECURSIVE Tails(_, _)
Tails(tokens, k) ==
  IF k = 0 THEN { <<>> }
  ELSE LET shorter == Tails(tokens, k - 1)
       IN  shorter \cup { t \o token : t \in shorter, token \in tokens }

NumberTexts ==
  { <<>>, <<"0">>, <<"1">>, <<"1", ".", "5">>, <<"9", "9", "9">>,
    <<"4", "9", "9", ".", "9", "9">>, <<"-", "2">>, <<".", "5">>,
    InfinityText, <<"1", "e", "9">>, <<"1", ".", "5", "E", "6">>,
    <<"1", "e", "9", "9", "9">> }

Paddings == { <<>>, <<" ">> }

\* The texts typed into an input of the panel.
Inputs(scales) ==
  { pad \o number \o tail \o pad :
      pad \in Paddings, number \in NumberTexts,
      tail \in Tails(TailTokens(scales), MaxTail) }

\* The numbers given to formatScaled.
FormatNumbers ==
  LET positive ==
        { Num(5), Num(999), Num(1000), Num(5000), Num(123456), Num(999499),
          Num(999999), MkNum(12, 1, 8), MkNum(12345, 1, 5), MkNum(49999, 1, 10),
          MkNum(15, 1, 14), MkNum(1, 1, 21), MkNum(2, 1, 33), MkNum(3, 1, 54),
          MkNum(5, 1, -1), MkNum(1, 1, -7), MkNum(1, 1, 306), MkNum(1, 1, 308) }
  IN  positive \cup { Neg(x) : x \in positive }
               \cup { Zero, NaN, Infinity, NegInfinity }

\* The largest of the small whole numbers given to timeSeconds.
MaxArg == 2

\* The rates, lucks and chances given to timeSeconds.
TimeNumbers ==
  { Num(i) : i \in -1..MaxArg }
    \cup { Num(10), MkNum(1, 1, 6), MkNum(15, 1, -1), MkNum(1, 1, 200),
           MkNum(1, 1, -200), NaN, Infinity, NegInfinity }

\* The seconds given to formatTimeHuman: those of the formatter's tests,
\* the ends of the units, and values around the threshold and far above 2^53.
TimeInputs ==
  { NaN, Infinity, NegInfinity, Zero, Num(-5), MkNum(5, 1, -1),
    MkNum(999, 1, -3), Num(1), MkNum(15, 1, -1), Num(45), Num(59), Num(60),
    Num(90), Num(125), Num(3599), Num(3600), Num(3665), Num(7325),
    Num(86400), Num(90065), Num(31557599), Num(31557600), Num(31644001),
    Num(34218065), MkNum(1, 1, 9), MkNum(1, 1, 15), MkNum(118954, 1, 14),
    MkNum(1, 1, 22), MkNum(3, 1, 22), MkNum(4, 1, 22), MkNum(1, 1, 30),
    MkNum(1, 1, 308) }

\* A RuneRecord that is not hidden and has no boosts.
RuneRecord(id, name, category, sourceNote, n, display) ==
  [id |-> id, name |-> name, category |-> category, hidden |-> FALSE,
   sourceNote |-> sourceNote,
   chance |-> [type |-> "oneInN", n |-> n, display |-> display],
   boosts |-> <<>>]

\* The runes of the core's tests of processRunes.
TestRunes ==
  << RuneRecord(<<"f", "a", "s", "t">>, <<"F", "a", "s", "t", " ", "R", "u", "n", "e">>,
                "Starter", <<"Q", "u", "i", "c", "k", " ", "t", "o", " ", "g", "e", "t">>,
                Num(10), <<"1", "/", "1", "0">>),
     RuneRecord(<<"s", "l", "o", "w">>, <<"S", "l", "o", "w", " ", "R", "u", "n", "e">>,
                "Magical", <<"T", "a", "k", "e", "s", " ", "a", " ", "w", "h", "i", "l", "e">>,
                MkNum(1, 1, 6), <<"1", "/", "1", "M">>) >>

\* Runes of two hours, an hour, half an hour, a second and half an hour again
\* at one roll a second, with the ids of the tests of findNextUnderHour.
TargetRunes ==
  << RuneRecord(<<"l", "o", "n", "g">>, <<>>,
                "Starter", <<>>,
                Num(7200), <<>>),
     RuneRecord(<<"h", "o", "u", "r">>, <<>>,
                "Starter", <<>>,
                Num(3600), <<>>),
     RuneRecord(<<"t", "a", "r", "g", "e", "t">>, <<>>,
                "Starter", <<>>,
                Num(1800), <<>>),
     RuneRecord(<<"i", "n", "s", "t", "a", "n", "t">>, <<>>,
                "Starter", <<>>,
                Num(1), <<>>),
     RuneRecord(<<"t", "w", "i", "n">>, <<"T", "w", "i", "n", " ", "r", "u", "n", "e">>,
                "Space", <<"A", "s", " ", "f", "a", "s", "t", " ", "a", "s", " ", "t", "a", "r", "g", "e", "t">>,
                Num(1800), <<"1", "/", "1", ".", "8", "K">>) >>

\* The rune lists given to processRunes.
RuneLists == { <<>>, TestRunes, TargetRunes }

\* The rolls per second and the lucks parseScaled gives the panel: finite
\* numbers, zero and negative ones among them.
Rates == { Num(i) : i \in -1..MaxArg } \cup { Num(100), MkNum(1, 1, 200) }

Lucks == { Num(1), MkNum(5, 1, -1), MkNum(1, 1, 200) }

\* {}
EmptyObject == [key \in {} |-> TRUE]

\* The options given to processRunes, each property there or not.
ProcessOptions ==
  { text @@ hideInstant @@ sort :
      text \in {EmptyObject}
                 \cup { [text |-> t] :
                          t \in { <<>>, <<"f", "a", "s", "t">>,
                                  <<"R", "U", "N", "E">>, <<"a", " ", "w">>,
                                  <<"z", "z">> } },
      hideInstant \in {EmptyObject}
                        \cup { [hideInstant |-> b] : b \in BOOLEAN },
      sort \in {EmptyObject} \cup { [sort |-> o] : o \in {"asc", "desc"} } }

\* ------------------------------------------------- the settings storage

\* A JSON text is a sequence of tokens: a punctuation mark or literal name
\* (s is empty), or a string literal holding the string s.
Punct(t) == [t |-> t, s |-> <<>>]

Lit(s) == [t |-> "string", s |-> s]

\* The elements of an array in JSON text, separated by commas.
RECURSIVE JSONElements(_)
JSONElements(array) ==
  IF Len(array) = 0 THEN <<>>
  ELSE IF Len(array) = 1 THEN <<Lit(array[1])>>
  ELSE <<Lit(array[1]), Punct(",")>> \o JSONElements(Tail(array))

\* JSON.stringify of an array of strings, and of a boolean.
JSONStringifyArray(array) ==
  <<Punct("[")>> \o JSONElements(array) \o <<Punct("]")>>

JSONStringifyBoolean(b) == IF b THEN <<Punct("true")>> ELSE <<Punct("false")>>

\* The tokens between the brackets are string literals separated by commas.
IsElementList(tokens) ==
  \/ Len(tokens) = 0
  \/ /\ Len(tokens) % 2 = 1
     /\ \A i \in 1..Len(tokens) :
          tokens[i].t = (IF i % 2 = 1 THEN "string" ELSE ",")

\* JSON.parse: the value of a text, of kind "array", "boolean" or "string";
\* kind "error" stands for the SyntaxError it throws on any other text.
JSONParse(text) ==
  IF Len(text) = 1 /\ text[1].t \in {"true", "false"}
  THEN [kind |-> "boolean", b |-> text[1].t = "true", items |-> <<>>]
  ELSE IF Len(text) = 1 /\ text[1].t = "string"
  THEN [kind |-> "string", b |-> FALSE, items |-> <<>>]
  ELSE IF /\ Len(text) >= 2
          /\ text[1].t = "[" /\ text[Len(text)].t = "]"
          /\ IsElementList(SubSeq(text, 2, Len(text) - 1))
  THEN [kind |-> "array", b |-> FALSE,
        items |-> [i \in 1..((Len(text) - 1) \div 2) |-> text[2 * i].s]]
  ELSE [kind |-> "error", b |-> FALSE, items |-> <<>>]

\* new Set(array): the elements in the order of their first occurrence.
RECURSIVE NewSet(_)
NewSet(array) ==
  IF Len(array) = 0 THEN <<>>
  ELSE IF \E i \in 1..(Len(array) - 1) : array[i] = array[Len(array)]
  THEN NewSet(SubSeq(array, 1, Len(array) - 1))
  ELSE Append(NewSet(SubSeq(array, 1, Len(array) - 1)), array[Len(array)])

\* The initial state of useLocalStorage for a Set valued setting: item is
\* what localStorage.getItem returned, null when the key is absent.
RestoreSet(item, initialValue) ==
  IF item = null THEN initialValue
  ELSE IF JSONParse(item).kind = "error" THEN initialValue
  ELSE NewSet(IF JSONParse(item).kind = "array"
              THEN JSONParse(item).items ELSE <<>>)

\* The initial state of useLocalStorage for a boolean setting.
RestoreBoolean(item, initialValue) ==
  IF item = null THEN initialValue
  ELSE IF JSONParse(item).kind = "boolean" THEN JSONParse(item).b
  ELSE initialValue

\* The updater of toggleObtainedRune: a copy of prev without runeId when it
\* has it, with runeId added last otherwise.
ToggleRune(prev, runeId) ==
  IF \E i \in 1..Len(prev) : prev[i] = runeId
  THEN SelectSeq(prev, LAMBDA id : id # runeId)
  ELSE Append(prev, runeId)

\* The ids of the runes the panel shows, and the items localStorage may
\* hold under the key of the obtained set when the page is first opened:
\* nothing (or the empty text), a text that is not JSON, and JSON texts
\* of another type.
RuneIds == { TestRunes[i].id : i \in 1..Len(TestRunes) }

FirstItems == {null, <<Punct("[")>>, <<Punct("true")>>, <<Lit(<<"a">>)>>}

\* ----------------------------------------------------- the state machine

VARIABLES
  scales,   \* the scales object given to the panel
  su,       \* the ScaleUtils built from it
  pc,       \* "idle", or "returned" when call and ret hold the last call
  call,     \* the last call: the function and its arguments
  ret,      \* what it returned
  runesData,    \* App: the runes document, JSNull until it is loaded
  scalesData,   \* App: the scales document, JSNull until it is loaded
  loading,      \* App: the load status of each document
  errors,       \* App: the error message of each document, or null
  loadData,     \* the step loadData is at: "runes", "scales" or "done"
  storage,      \* localStorage: the item of each key, null when absent
  mounted,      \* whether the panel is mounted
  storedValue,  \* the state of each useLocalStorage hook of the panel
  closure,      \* the storedValue the setters of the last render hold
  toggled       \* history: the rune ids toggled an odd number of times

coreVars == <<scales, su, pc, call, ret>>

appVars == <<runesData, scalesData, loading, errors, loadData>>

panelVars == <<mounted, storedValue, closure>>

uiVars == <<appVars, storage, panelVars, toggled>>

vars == <<coreVars, uiVars>>

\* JavaScript's null as the value of a document, and the documents that
\* response.json() can give: the expected object, or the JSON text null.
JSNull == [json |-> "null"]

RunesDocument == [json |-> "object", runes |-> TestRunes]

ScalesDocument == [json |-> "object", scales |-> TestScales]

\* How a fetch of a document can end: fetch rejects, the response is not
\* ok, its body is not JSON, or its body is the JSON text of a value.
FetchOutcomes == {"rejected", "not ok", "not json", "null", "object"}

\* The message of the error caught when a fetch ends in outcome.
ErrorMessage(outcome, statusMessage) ==
  IF outcome = "rejected" THEN <<"Failed to fetch">>
  ELSE IF outcome = "not ok" THEN statusMessage
  ELSE <<"Unexpected token">>

\* The state of App on its first render.
AppStart ==
  /\ runesData = JSNull
  /\ scalesData = JSNull
  /\ loading = [runes |-> "loading", scales |-> "loading"]
  /\ errors = [runes |-> null, scales |-> null]
  /\ loadData = "runes"

\* The initial values the panel gives its hooks.
InitialValues == [runeCalc_hideInstant |-> FALSE, runeCalc_obtained |-> <<>>]

PanelStart ==
  /\ mounted = FALSE
  /\ storedValue = InitialValues
  /\ closure = InitialValues

NoCall ==
  [op |-> "none", input |-> <<>>, num |-> Zero, rps |-> Zero, luck |-> Zero,
   chanceN |-> Zero, formatted |-> FALSE, seconds |-> Zero, runes |-> <<>>,
   opts |-> EmptyObject]

NoRet ==
  [value |-> Zero, warning |-> null, text |-> <<>>, processed |-> <<>>,
   id |-> null, runes |-> <<>>]

\* What parseScaled returned, as the value of ret.
Parsed(result) ==
  [NoRet EXCEPT !.value = result.value, !.warning = result.warning]

Init ==
  /\ scales \in ScaleTables
  /\ su = buildScaleUtils(scales)
  /\ pc = "idle"
  /\ call = NoCall
  /\ ret = NoRet
  /\ AppStart
  /\ PanelStart
  /\ storage = [runeCalc_hideInstant |-> null, runeCalc_obtained |-> null]
  /\ toggled = {}

\* The panel is given another scales object and builds its ScaleUtils anew.
BuildScaleUtils ==
  /\ pc = "idle"
  /\ \E table \in ScaleTables \ {scales} :
       /\ scales' = table
       /\ su' = buildScaleUtils(table)
  /\ UNCHANGED <<pc, call, ret, uiVars>>

\* parseScaled(input, su) on a text typed by the user.
ParseScaled ==
  /\ pc = "idle"
  /\ \E input \in Inputs(scales) :
       /\ call' = [NoCall EXCEPT !.op = "parseScaled", !.input = input]
       /\ ret' = Parsed(parseScaled(input, su))
  /\ pc' = "returned"
  /\ UNCHANGED <<scales, su, uiVars>>

\* formatScaled(num, su)
FormatScaled ==
  /\ pc = "idle"
  /\ \E num \in FormatNumbers :
       /\ call' = [NoCall EXCEPT !.op = "formatScaled", !.num = num]
       /\ ret' = [NoRet EXCEPT !.text = formatScaled(num, su)]
  /\ pc' = "returned"
  /\ UNCHANGED <<scales, su, uiVars>>

\* parseScaled(formatScaled(num, su), su): the text formatScaled returned is
\* given back to the parser.
ParseFormatted ==
  /\ pc = "returned"
  /\ call.op = "formatScaled"
  /\ call' = [call EXCEPT !.op = "parseScaled", !.input = ret.text,
                          !.formatted = TRUE]
  /\ ret' = Parsed(parseScaled(ret.text, su))
  /\ UNCHANGED <<scales, su, pc, uiVars>>

\* timeSeconds(rps, luck, chanceN)
TimeSeconds ==
  /\ pc = "idle"
  /\ \E rps \in TimeNumbers, luck \in TimeNumbers, chanceN \in TimeNumbers :
       /\ call' = [NoCall EXCEPT !.op = "timeSeconds", !.rps = rps,
                                 !.luck = luck, !.chanceN = chanceN]
       /\ ret' = [NoRet EXCEPT !.value = timeSeconds(rps, luck, chanceN)]
  /\ pc' = "returned"
  /\ UNCHANGED <<scales, su, uiVars>>

\* formatTimeHuman(seconds), as the panel shows a time.
FormatTimeHuman ==
  /\ pc = "idle"
  /\ \E seconds \in TimeInputs :
       /\ call' = [NoCall EXCEPT !.op = "formatTimeHuman",
                                 !.seconds = seconds]
       /\ ret' = [NoRet EXCEPT !.text = formatTimeHuman(seconds)]
  /\ pc' = "returned"
  /\ UNCHANGED <<scales, su, uiVars>>

\* processRunes(runes, rpsResult.value, luckResult.value, processOptions)
ProcessRunes ==
  /\ pc = "idle"
  /\ \E runes \in RuneLists, rps \in Rates, luck \in Lucks,
        opts \in ProcessOptions :
       /\ call' = [NoCall EXCEPT !.op = "processRunes", !.runes = runes,
                                 !.rps = rps, !.luck = luck, !.opts = opts]
       /\ ret' = [NoRet EXCEPT
                    !.processed = processRunes(runes, rps, luck, opts),
                    !.runes =
                      processRunesArrays(runes, rps, luck, opts).runes]
  /\ pc' = "returned"
  /\ UNCHANGED <<scales, su, uiVars>>

\* findNextUnderHour(processedRunes): the list processRunes returned is
\* searched for the next target.
FindNextUnderHour ==
  /\ pc = "returned"
  /\ call.op = "processRunes"
  /\ call' = [call EXCEPT !.op = "findNextUnderHour"]
  /\ ret' = [ret EXCEPT !.id = findNextUnderHour(ret.processed)]
  /\ UNCHANGED <<scales, su, pc, uiVars>>

\* The caller has used the result.
Return ==
  /\ pc = "returned"
  /\ pc' = "idle"
  /\ call' = NoCall
  /\ ret' = NoRet
  /\ UNCHANGED <<scales, su, uiVars>>

Next ==
  \/ BuildScaleUtils
  \/ ParseScaled
  \/ FormatScaled
  \/ ParseFormatted
  \/ TimeSeconds
  \/ FormatTimeHuman
  \/ ProcessRunes
  \/ FindNextUnderHour
  \/ Return

Spec == Init /\ [][Next]_vars

\* ------------------------------------------------ the App and its panel

\* What App renders in the current state.
Screen ==
  IF loading.runes = "loading" \/ loading.scales = "loading" THEN "loading"
  ELSE IF loading.runes = "error" \/ loading.scales = "error" THEN "error"
  ELSE IF runesData # JSNull /\ scalesData # JSNull THEN "panel"
  ELSE "fallback"

\* loadData fetches the runes document and records how the fetch ended.
LoadRunes ==
  /\ loadData = "runes"
  /\ \E outcome \in FetchOutcomes :
       IF outcome \in {"null", "object"}
       THEN /\ runesData' = (IF outcome = "null" THEN JSNull
                             ELSE RunesDocument)
            /\ loading' = [loading EXCEPT !.runes = "loaded"]
            /\ UNCHANGED errors
       ELSE /\ errors' = [errors EXCEPT !.runes =
                            ErrorMessage(outcome, <<"Failed to load runes:">>)]
            /\ loading' = [loading EXCEPT !.runes = "error"]
            /\ UNCHANGED runesData
  /\ loadData' = "scales"
  /\ UNCHANGED <<coreVars, scalesData, storage, panelVars, toggled>>

\* loadData then fetches the scales document, whatever became of the runes.
LoadScales ==
  /\ loadData = "scales"
  /\ \E outcome \in FetchOutcomes :
       IF outcome \in {"null", "object"}
       THEN /\ scalesData' = (IF outcome = "null" THEN JSNull
                              ELSE ScalesDocument)
            /\ loading' = [loading EXCEPT !.scales = "loaded"]
            /\ UNCHANGED errors
       ELSE /\ errors' = [errors EXCEPT !.scales =
                            ErrorMessage(outcome, <<"Failed to load scales:">>)]
            /\ loading' = [loading EXCEPT !.scales = "error"]
            /\ UNCHANGED scalesData
  /\ loadData' = "done"
  /\ UNCHANGED <<coreVars, runesData, storage, panelVars, toggled>>

\* App renders the panel for the first time: each hook takes its initial
\* state from localStorage.
MountPanel ==
  /\ Screen = "panel"
  /\ ~mounted
  /\ mounted' = TRUE
  /\ storedValue' =
       [runeCalc_hideInstant |->
          RestoreBoolean(storage.runeCalc_hideInstant,
                         InitialValues.runeCalc_hideInstant),
        runeCalc_obtained |->
          RestoreSet(storage.runeCalc_obtained,
                     InitialValues.runeCalc_obtained)]
  /\ closure' = storedValue'
  /\ UNCHANGED <<coreVars, appVars, storage, toggled>>

\* localStorage.setItem(key, text): the item is stored, or setItem throws
\* and the hook ignores the error.
SetItem(key, text, stored) ==
  storage' = IF stored THEN [storage EXCEPT ![key] = text] ELSE storage

\* The hide-instant checkbox calls its setter with a value.
SetHideInstant ==
  /\ mounted
  /\ \E value \in BOOLEAN, stored \in BOOLEAN :
       /\ storedValue' = [storedValue EXCEPT !.runeCalc_hideInstant = value]
       /\ SetItem("runeCalc_hideInstant", JSONStringifyBoolean(value), stored)
  /\ UNCHANGED <<coreVars, appVars, mounted, closure, toggled>>

\* toggleObtainedRune calls the setter of the obtained set with an updater,
\* which setValue applies to the storedValue of its closure.
ToggleObtainedRune ==
  /\ mounted
  /\ \E runeId \in RuneIds, stored \in BOOLEAN :
       /\ storedValue' =
            [storedValue EXCEPT !.runeCalc_obtained =
               ToggleRune(closure.runeCalc_obtained, runeId)]
       /\ SetItem("runeCalc_obtained",
                  JSONStringifyArray(
                    ToggleRune(closure.runeCalc_obtained, runeId)),
                  stored)
       /\ toggled' = (toggled \ {runeId}) \cup ({runeId} \ toggled)
  /\ UNCHANGED <<coreVars, appVars, mounted, closure>>

\* The panel renders again after a state update: the setters of the new
\* render hold the current storedValue.
Render ==
  /\ mounted
  /\ closure # storedValue
  /\ closure' = storedValue
  /\ UNCHANGED <<coreVars, appVars, storage, mounted, storedValue, toggled>>

\* The page is loaded again: App and the panel start over and localStorage
\* is what the last page left.
Reload ==
  /\ loadData # "runes"
  /\ runesData' = JSNull
  /\ scalesData' = JSNull
  /\ loading' = [runes |-> "loading", scales |-> "loading"]
  /\ errors' = [runes |-> null, scales |-> null]
  /\ loadData' = "runes"
  /\ mounted' = FALSE
  /\ storedValue' = InitialValues
  /\ closure' = InitialValues
  /\ UNCHANGED <<coreVars, storage, toggled>>

InitUi ==
  /\ scales = TestScales
  /\ su = buildScaleUtils(scales)
  /\ pc = "idle"
  /\ call = NoCall
  /\ ret = NoRet
  /\ AppStart
  /\ PanelStart
  /\ storage \in [runeCalc_hideInstant : {null},
                   runeCalc_obtained : FirstItems]
  /\ toggled = {}

NextUi ==
  \/ LoadRunes
  \/ LoadScales
  \/ MountPanel
  \/ SetHideInstant
  \/ ToggleObtainedRune
  \/ Render
  \/ Reload

\* A fetch always ends, so loadData goes on to its end unless the page is
\* loaded again first, which the user does not do forever.
SpecUi ==
  InitUi /\ [][NextUi]_vars /\ WF_vars(LoadRunes) /\ SF_vars(LoadScales)

\* ------------------------------------------------------------ properties

ParseReturned == pc = "returned" /\ call.op = "parseScaled"

FormatReturned == pc = "returned" /\ call.op = "formatScaled"

TimeReturned == pc = "returned" /\ call.op = "timeSeconds"

\* The non-empty suffixes of the scales object.
TableSuffixes == { scales[i][1] : i \in 1..Len(scales) } \ {<<>>}

\* The suffixes of the scales object that differ from suffix in letter case
\* at most.
CaseVariants(suffix) ==
  { t \in TableSuffixes : toLowerCase(t) = toLowerCase(suffix) }

\* The text is, all of it, a decimal literal.
WellFormedNumber(text) ==
  ScanFloat(text).kind = "decimal" /\ ScanFloat(text).used = Len(text)

\* The text is, all of it, a number, or a number and a suffix of the table.
WellFormedInput(text) ==
  \/ WellFormedNumber(text)
  \/ \E t \in TableSuffixes :
       /\ endsWith(toLowerCase(text), toLowerCase(t))
       /\ WellFormedNumber(sliceEnd(text, Len(t)))

\* The entry at which the suffix loop breaks on the call's input.
MatchedEntry ==
  su.scaleEntries[Min(AcceptedEntries(trim(call.input), su))]

\* The suffix loop breaks on the call's input.
SuffixMatched ==
  /\ ParseReturned
  /\ trim(call.input) # <<>>
  /\ ~IsScientific(trim(call.input))
  /\ AcceptedEntries(trim(call.input), su) # {}

\* C1: timeSeconds(rps, luck, n) is Infinity whenever rps <= 0 or luck <= 0
\* or n <= 0, and otherwise the quotient n / (rps * luck): multiplied by
\* rps * luck it gives n back wherever nothing left the finite range, and
\* timeSeconds(10, 2, 1000000) is 50000.
C1_TimeSeconds ==
  TimeReturned =>
    /\ (Le(call.rps, Zero) \/ Le(call.luck, Zero) \/ Le(call.chanceN, Zero))
         => ret.value = Infinity
    /\ ~(Le(call.rps, Zero) \/ Le(call.luck, Zero) \/ Le(call.chanceN, Zero))
         => /\ ret.value = Div(call.chanceN, Mul(call.rps, call.luck))
            /\ (isFinite(ret.value) /\ ret.value # Zero
                /\ isFinite(Mul(call.rps, call.luck)))
                 => Mul(ret.value, Mul(call.rps, call.luck)) = call.chanceN
    /\ (call.rps = Num(10) /\ call.luck = Num(2)
        /\ call.chanceN = MkNum(1, 1, 6)) => ret.value = Num(50000)

\* C1's case: timeSeconds(10, 2, 1000000) has returned 50000.
C1_Witness ==
  /\ TimeReturned
  /\ call.rps = Num(10) /\ call.luck = Num(2) /\ call.chanceN = MkNum(1, 1, 6)
  /\ ret.value = Num(50000)

\* C2 as stated: whenever the trimmed input is not, in its entirety, a
\* well-formed number or a number followed by a suffix of the table, the
\* result is value 0 with a warning.
C2_Original ==
  (ParseReturned /\ ~WellFormedInput(trim(call.input)))
    => (ret.value = Zero /\ ret.warning # null)

\* C2, amended: whenever the trimmed input does not begin with a decimal
\* number (it is empty, or no decimal literal starts it), the result is
\* value 0 with a warning, and for an empty or white-space input the warning
\* is the empty-input one.
C2_InvalidInput ==
  ParseReturned =>
    /\ ScanFloat(trim(call.input)).kind # "decimal"
         => (ret.value = Zero /\ ret.warning # null)
    /\ trim(call.input) = <<>>
         => (ret.value = Zero /\ ret.warning = <<"Empty input">>)

\* C2's case: an input of letters alone has returned value 0 and a warning.
C2_Witness ==
  /\ ParseReturned
  /\ trim(call.input) = <<"x">>
  /\ ret.value = Zero
  /\ ret.warning = <<"Invalid number format">>

\* The ambiguity warning that names suffix and lists, in some order, every
\* other case variant of it in the table, and nothing else.
NamesTheOthers(warning, suffix) ==
  LET others == CaseVariants(suffix) \ {suffix}
  IN  \E alternatives \in [1..Cardinality(others) -> others] :
        /\ \A t \in others : \E i \in DOMAIN alternatives : alternatives[i] = t
        /\ warning = <<"Ambiguous suffix \"">> \o suffix
                       \o <<"\" - could also mean: ">>
                       \o join(alternatives, <<", ">>)

\* The prefix the matched suffix leaves, as a number.
MatchedPrefix ==
  parseFloat(sliceEnd(trim(call.input), Len(MatchedEntry[1])))

\* C3 as stated: when the matched suffix has a case variant in the table,
\* the value is the numeric prefix times its multiplier and the warning
\* names it and lists exactly its other case variants.
C3_Original ==
  (SuffixMatched /\ Cardinality(CaseVariants(MatchedEntry[1])) > 1)
    => /\ ret.value = Mul(MatchedPrefix, MatchedEntry[2])
       /\ NamesTheOthers(ret.warning, MatchedEntry[1])

\* C3, amended: when the matched suffix has a case variant in the table and
\* the product of the numeric prefix and its multiplier is finite, the value
\* is that product and the warning names the matched suffix and lists
\* exactly its other case variants; a product that is not finite gives
\* value 0 and the result-too-large warning instead.
C3_Ambiguous ==
  (SuffixMatched /\ Cardinality(CaseVariants(MatchedEntry[1])) > 1)
    => IF isFinite(Mul(MatchedPrefix, MatchedEntry[2]))
       THEN /\ ret.value = Mul(MatchedPrefix, MatchedEntry[2])
            /\ NamesTheOthers(ret.warning, MatchedEntry[1])
       ELSE ret.value = Zero /\ ret.warning = <<"Result too large">>

\* C3's case: "1.5k", with k and K both in the table, has returned 1500 and
\* the warning that names k and lists K.
C3_Witness ==
  /\ ParseReturned
  /\ scales = TestScales
  /\ call.input = <<"1", ".", "5", "k">>
  /\ ret.value = Num(1500)
  /\ ret.warning = <<"Ambiguous suffix \"", "k", "\" - could also mean: ", "K">>

\* C4: an input whose trimmed text holds an e or an E takes the
\* scientific-notation path: the result is what parseFloat makes of the
\* whole text, with no multiplier and a null warning, when that is finite,
\* and value 0 with the invalid-scientific-notation warning when it is not;
\* "1e9" gives 1e9 and "1.5E6" gives 1.5e6.
C4_Scientific ==
  (ParseReturned /\ (includes(trim(call.input), "e")
                     \/ includes(trim(call.input), "E")))
    => /\ IF isFinite(parseFloat(trim(call.input)))
          THEN ret.value = parseFloat(trim(call.input)) /\ ret.warning = null
          ELSE /\ ret.value = Zero
               /\ ret.warning = <<"Invalid scientific notation">>
       /\ trim(call.input) = <<"1", "e", "9">> => ret.value = MkNum(1, 1, 9)
       /\ trim(call.input) = <<"1", ".", "5", "E", "6">>
            => ret.value = MkNum(15, 1, 5)

\* C4's case: "1.5E6K", a number in scientific notation before a suffix of
\* the table, has returned 1.5e6, the suffix left out.
C4_Witness ==
  /\ ParseReturned
  /\ scales = TestScales
  /\ call.input = <<"1", ".", "5", "E", "6", "K">>
  /\ ret.value = MkNum(15, 1, 5)
  /\ ret.warning = null

\* The trimmed input is a decimal number, without exponent, and then the
\* suffix of entry i of the scales object, which no other suffix of the
\* table equals in lower case.
NumberThenSuffix(i) ==
  /\ scales[i][1] # <<>>
  /\ ~IsScientific(trim(call.input))
  /\ endsWith(trim(call.input), scales[i][1])
  /\ WellFormedNumber(sliceEnd(trim(call.input), Len(scales[i][1])))
  /\ CaseVariants(scales[i][1]) = {scales[i][1]}

PrefixBefore(i) == parseFloat(sliceEnd(trim(call.input), Len(scales[i][1])))

\* An entry of the scales object that comes before entry i in the
\* descending-multiplier order also ends the trimmed input, letter case
\* aside, and leaves a text that starts with a number.
EarlierMatch(i) ==
  \E j \in 1..Len(scales) :
    /\ j # i
    /\ scales[j][1] # <<>>
    /\ \/ Gt(scales[j][2], scales[i][2])
       \/ scales[j][2] = scales[i][2] /\ j < i
    /\ endsWith(toLowerCase(trim(call.input)), toLowerCase(scales[j][1]))
    /\ isFinite(PrefixBefore(j))

RECURSIVE CaseChoices(_)
CaseChoices(s) ==
  IF s = <<>> THEN { <<>> }
  ELSE { <<c>> \o t : c \in {LowerChar(Head(s)), UpperChar(Head(s))},
                      t \in CaseChoices(Tail(s)) }

\* The texts that differ from input only in the letter case of what follows
\* its leading number.
SuffixCaseVariants(input) ==
  { SubSeq(input, 1, ScanFloat(input).used) \o t :
      t \in CaseChoices(Drop(input, ScanFloat(input).used)) }

\* C6: suffix matching is case-insensitive: two inputs without e or E that
\* differ only in the letter case of the characters after the number give
\* the same value and the same warning.
C6_CaseInsensitive ==
  (ParseReturned /\ ~IsScientific(trim(call.input)))
    => \A variant \in SuffixCaseVariants(call.input) :
         /\ parseScaled(variant, su).value = ret.value
         /\ parseScaled(variant, su).warning = ret.warning

\* C6's case: "1.5K", typed with the upper-case letter where the table has
\* k before K, has returned what "1.5k" returns: 1500 and the warning that
\* names k.
C6_Witness ==
  /\ ParseReturned
  /\ scales = TestScales
  /\ call.input = <<"1", ".", "5", "K">>
  /\ ret.value = Num(1500)
  /\ ret.warning = <<"Ambiguous suffix \"", "k", "\" - could also mean: ", "K">>

\* C7: every suffix form of the table is accepted: for every non-empty
\* suffix s of the table, parseScaled("1" + s) returns the multiplier of s
\* or of a suffix of the table equal to s letter case aside.
C7_EverySuffixAccepted ==
  ParseReturned =>
    \A s \in TableSuffixes :
      call.input = <<"1">> \o s
        => \E i \in 1..Len(scales) :
             /\ toLowerCase(scales[i][1]) = toLowerCase(s)
             /\ ret.value = scales[i][2]

\* v is x to the 3 significant digits of formatScaled: of the sign of x and
\* no further from it than 1/200 of its magnitude.
Within3Digits(v, x) ==
  /\ isFinite(v)
  /\ SignOf(v) = SignOf(x)
  /\ Le(Mul(MathAbs(x), MkNum(199, 200, 0)), MathAbs(v))
  /\ Le(MathAbs(v), Mul(MathAbs(x), MkNum(201, 200, 0)))

\* formatScaled puts no suffix on num, or one that has no case variant.
FormattedUnambiguous(num) ==
  \/ ~isFinite(num)
  \/ Lt(MathAbs(num), Num(FormatSmall))
  \/ FormatEntries(MathAbs(num), su) = {}
  \/ CaseVariants(su.scaleEntries[Min(FormatEntries(MathAbs(num), su))][1])
       = {su.scaleEntries[Min(FormatEntries(MathAbs(num), su))][1]}

\* C8: round trip: for a finite x whose formatted suffix is unambiguous,
\* parseScaled(formatScaled(x, T), T).value is x to within the 3 significant
\* digits of formatScaled.
C8_RoundTrip ==
  (ParseReturned /\ call.formatted /\ isFinite(call.num)
   /\ FormattedUnambiguous(call.num))
    => Within3Digits(ret.value, call.num)

\* The text formatScaled is to return for num with entry i of the ordered
\* entries: the sign, the quotient to 3 significant digits, a space and the
\* suffix.
SuffixedText(num, i) ==
  (IF SignOf(num) < 0 THEN <<"-">> ELSE <<>>)
    \o toPrecision(Div(MathAbs(num), su.scaleEntries[i][2]), 3)
    \o <<" ">> \o su.scaleEntries[i][1]

\* Entry i of the ordered entries is the first with a suffix and a
\* multiplier of at most |num|, and no suffix of the table has a larger
\* multiplier of at most |num|.
FirstAndLargest(num, i) ==
  /\ su.scaleEntries[i][1] # <<>>
  /\ Le(su.scaleEntries[i][2], MathAbs(num))
  /\ \A j \in 1..(i - 1) :
       su.scaleEntries[j][1] = <<>> \/ Gt(su.scaleEntries[j][2], MathAbs(num))
  /\ \A j \in 1..Len(scales) :
       (scales[j][1] # <<>> /\ Le(scales[j][2], MathAbs(num)))
         => Le(scales[j][2], su.scaleEntries[i][2])

\* The table has a suffix whose multiplier is at most |num|.
SomeSuffixFits(num) ==
  \E j \in 1..Len(scales) :
    scales[j][1] # <<>> /\ Le(scales[j][2], MathAbs(num))

\* C9 as stated: for any number x with |x| >= 1000 and a table with a suffix
\* whose multiplier is at most |x|, formatScaled returns the sign, |x| over
\* the largest such multiplier to 3 significant digits, a space and the
\* suffix.
C9_Original ==
  (FormatReturned /\ Ge(MathAbs(call.num), Num(1000))
   /\ SomeSuffixFits(call.num))
    => \E i \in 1..Len(su.scaleEntries) :
         FirstAndLargest(call.num, i) /\ ret.text = SuffixedText(call.num, i)

\* C9, amended: for any finite number x with |x| >= 1000 and a table with a
\* suffix whose multiplier is at most |x|, formatScaled returns the sign
\* ("-" exactly when x < 0), |x| over the multiplier of the first entry in
\* descending order that is at most |x| (the largest such) to 3 significant
\* digits, a space and the suffix; 1.2345e9 gives "1.23 B".
C9_Format ==
  (FormatReturned /\ isFinite(call.num) /\ Ge(MathAbs(call.num), Num(1000))
   /\ SomeSuffixFits(call.num))
    => /\ \E i \in 1..Len(su.scaleEntries) :
            /\ FirstAndLargest(call.num, i)
            /\ ret.text = SuffixedText(call.num, i)
       /\ (Head(ret.text) = "-") <=> Lt(call.num, Zero)
       /\ (scales = TestScales /\ call.num = MkNum(12345, 1, 5))
            => ret.text = <<"1", ".", "2", "3", " ", "B">>

\* C9's case: formatScaled(1.2345e9) has returned "1.23 B".
C9_Witness ==
  /\ FormatReturned
  /\ scales = TestScales
  /\ call.num = MkNum(12345, 1, 5)
  /\ ret.text = <<"1", ".", "2", "3", " ", "B">>

\* The scales object has the base case.
HasBaseCase == \E i \in 1..Len(scales) : scales[i][1] = <<>>

\* The place of a suffix in the scales object.
InsertionIndex(suffix) == CHOOSE i \in 1..Len(scales) : scales[i][1] = suffix

\* C10 as stated: for a table with a base case the ordered entries start
\* with ("", 1) and the others are sorted strictly descending by multiplier.
C10_Original ==
  HasBaseCase =>
    /\ su.scaleEntries[1] = << <<>>, Num(1) >>
    /\ \A i \in 2..Len(su.scaleEntries), j \in 2..Len(su.scaleEntries) :
         i < j => Gt(su.scaleEntries[i][2], su.scaleEntries[j][2])

\* C10, amended: for a table with a base case the ordered entries start
\* with ("", 1) and the others are sorted descending by multiplier, not
\* strictly: suffixes of equal multiplier follow one another in the order
\* of the scales object.
C10_Ordered ==
  HasBaseCase =>
    /\ su.scaleEntries[1] = << <<>>, Num(1) >>
    /\ \A i \in 2..Len(su.scaleEntries), j \in 2..Len(su.scaleEntries) :
         i < j =>
           /\ Ge(su.scaleEntries[i][2], su.scaleEntries[j][2])
           /\ su.scaleEntries[i][2] = su.scaleEntries[j][2]
                => InsertionIndex(su.scaleEntries[i][1])
                     < InsertionIndex(su.scaleEntries[j][1])

\* C10's case: the table of the tests, written in ascending order and with
\* k and K of one multiplier, has been built into T, B, M, k, K after the
\* base case.
C10_Witness ==
  /\ scales = TestScales
  /\ su.scaleEntries =
       << << <<>>, Num(1) >>, << <<"T">>, MkNum(1, 1, 12) >>,
          << <<"B">>, MkNum(1, 1, 9) >>, << <<"M">>, MkNum(1, 1, 6) >>,
          << <<"k">>, MkNum(1, 1, 3) >>, << <<"K">>, MkNum(1, 1, 3) >> >>

\* The places of a suffix in the ordered entries.
EntriesOf(suffix) ==
  { j \in 1..Len(su.scaleEntries) : su.scaleEntries[j][1] = suffix }

\* C11: each non-empty suffix of the scales object is exactly once in the
\* ordered entries, with its own multiplier, no other non-empty suffix is,
\* the empty suffix is there exactly once with multiplier 1, and the empty
\* suffix is in no lower-case group, is no key of the groups and is not in
\* the set of conflicts.
C11_Entries ==
  /\ \A i \in 1..Len(scales) :
       scales[i][1] # <<>>
         => /\ Cardinality(EntriesOf(scales[i][1])) = 1
            /\ \A j \in EntriesOf(scales[i][1]) :
                 su.scaleEntries[j][2] = scales[i][2]
  /\ \A j \in 1..Len(su.scaleEntries) :
       su.scaleEntries[j][1] # <<>> => su.scaleEntries[j][1] \in TableSuffixes
  /\ Cardinality(EntriesOf(<<>>)) = 1
  /\ \A j \in EntriesOf(<<>>) : su.scaleEntries[j][2] = Num(1)
  /\ <<>> \notin DOMAIN su.lowerCaseScaleMap
  /\ \A lower \in DOMAIN su.lowerCaseScaleMap :
       \A i \in 1..Len(su.lowerCaseScaleMap[lower]) :
         su.lowerCaseScaleMap[lower][i] # <<>>
  /\ <<>> \notin su.conflictingLowerCaseSuffixes

\* C11's case: a scales object with its base case in the middle has been
\* built into the base case and then M and K.
C11_Witness ==
  /\ scales = MiddleScales
  /\ su.scaleEntries =
       << << <<>>, Num(1) >>, << <<"M">>, MkNum(1, 1, 6) >>,
          << <<"K">>, MkNum(1, 1, 3) >> >>
  /\ DOMAIN su.lowerCaseScaleMap = { <<"m">>, <<"k">> }

\* The suffixes of the ordered entries whose lower-case form is lower, in
\* the order of the entries.
RECURSIVE GroupOf(_, _)
GroupOf(entries, lower) ==
  IF entries = <<>> THEN <<>>
  ELSE IF entries[1][1] # <<>> /\ toLowerCase(entries[1][1]) = lower
  THEN <<entries[1][1]>> \o GroupOf(Tail(entries), lower)
  ELSE GroupOf(Tail(entries), lower)

\* The multiplier a suffix has in the scales object.
MultiplierOf(suffix) == scales[InsertionIndex(suffix)][2]

\* C12: the keys of the lower-case groups are the lower-case forms of the
\* non-empty suffixes; the group of key L lists exactly the suffixes whose
\* lower-case form is L, each once, by descending multiplier and, where the
\* multipliers are equal, in the order of the scales object; and L is in
\* the set of conflicts if and only if its group has more than one member
\* (k:1000 and K:1000 give the group [k, K] and the conflict k).
C12_Groups ==
  /\ DOMAIN su.lowerCaseScaleMap = { toLowerCase(t) : t \in TableSuffixes }
  /\ \A lower \in DOMAIN su.lowerCaseScaleMap :
       LET group == su.lowerCaseScaleMap[lower]
       IN  /\ { group[i] : i \in 1..Len(group) }
                = { t \in TableSuffixes : toLowerCase(t) = lower }
           /\ \A i \in 1..Len(group), j \in 1..Len(group) :
                i < j =>
                  /\ group[i] # group[j]
                  /\ Ge(MultiplierOf(group[i]), MultiplierOf(group[j]))
                  /\ MultiplierOf(group[i]) = MultiplierOf(group[j])
                       => InsertionIndex(group[i]) < InsertionIndex(group[j])
           /\ group = GroupOf(su.scaleEntries, lower)
           /\ (lower \in su.conflictingLowerCaseSuffixes) <=> Len(group) > 1
  /\ su.conflictingLowerCaseSuffixes \subseteq DOMAIN su.lowerCaseScaleMap
  /\ scales = TestScales
       => /\ su.lowerCaseScaleMap[<<"k">>] = << <<"k">>, <<"K">> >>
          /\ su.conflictingLowerCaseSuffixes = { <<"k">> }

\* C12's case: the table of the tests has been built into the group [k, K]
\* of k, the conflict k, and groups of one member for m, b and t.
C12_Witness ==
  /\ scales = TestScales
  /\ su.lowerCaseScaleMap[<<"k">>] = << <<"k">>, <<"K">> >>
  /\ su.lowerCaseScaleMap[<<"m">>] = << <<"M">> >>
  /\ su.conflictingLowerCaseSuffixes = { <<"k">> }

FormatTimeReturned == pc = "returned" /\ call.op = "formatTimeHuman"

\* 1e15 years of 365.25 days, in seconds.
YearsThreshold == MkNum(315576, 1, 17)

\* C13: formatTimeHuman returns Never exactly for the inputs that are not
\* finite (Infinity, -Infinity, NaN), Instant exactly for the finite inputs
\* below 1 (0 and the negative ones among them), and the ellipsis exactly for
\* the finite inputs above 1e15 years in seconds; no other input gets one of
\* the three texts.
C13_Classifies ==
  FormatTimeReturned =>
    /\ ret.text = Never <=> call.seconds.k \in {"inf", "ninf", "nan"}
    /\ ret.text = Instant
         <=> call.seconds.k = "fin" /\ Lt(call.seconds, Num(1))
    /\ ret.text = Ellipsis
         <=> call.seconds.k = "fin" /\ Gt(call.seconds, YearsThreshold)

\* C13's case: 4e22 seconds, above the threshold, has been formatted as the
\* ellipsis.
C13_Witness ==
  /\ FormatTimeReturned
  /\ call.seconds = MkNum(4, 1, 22)
  /\ ret.text = Ellipsis

\* The greedy decomposition of a whole number of seconds: for each unit, from
\* the largest, how many times it goes into what the larger units left.
RECURSIVE Greedy(_, _)
Greedy(rest, units) ==
  IF units = <<>> THEN <<>>
  ELSE << [count |-> NatDivMod(rest, Head(units).seconds).q,
           name |-> Head(units).name] >>
         \o Greedy(NatDigits(NatDivMod(rest, Head(units).seconds).rem),
                   Tail(units))

\* The first up-to-three units of a decomposition that are not zero.
RECURSIVE FirstNonZero(_, _)
FirstNonZero(units, k) ==
  IF units = <<>> \/ k = 0 THEN <<>>
  ELSE IF Head(units).count = <<0>> THEN FirstNonZero(Tail(units), k)
  ELSE <<Head(units)>> \o FirstNonZero(Tail(units), k - 1)

\* '<count> <unit>', the unit in the plural exactly when count is not 1.
CountAndUnit(part) ==
  DigitChars(part.count) \o <<" ">> \o part.name
    \o (IF part.count # <<1>> THEN <<"s">> ELSE <<>>)

ShownUnits(seconds) == FirstNonZero(Greedy(MathFloor(seconds), TIME_UNITS), 3)

InDecomposedRange ==
  /\ FormatTimeReturned
  /\ call.seconds.k = "fin"
  /\ Ge(call.seconds, Num(1))
  /\ Le(call.seconds, YearsThreshold)

\* C14: for seconds in [1, threshold] formatTimeHuman returns between one
\* and three parts, which are the first up-to-three units that are not zero
\* of the greedy year/day/hour/minute/second decomposition of floor(seconds),
\* the largest first, each as '<count> <unit>' with the plural exactly when
\* count is not 1, joined by ', ' (3665 gives '1 hour, 1 minute, 5 seconds',
\* 86400 + 3665 gives '1 day, 1 hour, 1 minute').
C14_Decomposition ==
  InDecomposedRange =>
    /\ Len(ShownUnits(call.seconds)) \in 1..3
    /\ ret.text
         = join([i \in 1..Len(ShownUnits(call.seconds))
                   |-> CountAndUnit(ShownUnits(call.seconds)[i])],
                <<",", " ">>)

ProcessReturned == pc = "returned" /\ call.op = "processRunes"

\* t is a run of consecutive characters of s.
IsSubstring(t, s) ==
  \E first \in 1..(Len(s) + 1), last \in 0..Len(s) :
    SubSeq(s, first, last) = t

\* There is a filter text and it is not empty.
HasFilterText == "text" \in DOMAIN call.opts /\ Len(call.opts.text) > 0

\* The rune passes the text filter of the call.
PassesText(rune) ==
  HasFilterText =>
    \/ IsSubstring(toLowerCase(call.opts.text), toLowerCase(rune.name))
    \/ IsSubstring(toLowerCase(call.opts.text), toLowerCase(rune.sourceNote))

HideInstantOn ==
  "hideInstant" \in DOMAIN call.opts /\ call.opts.hideInstant = TRUE

\* The time of a rune of the call.
TimeOf(rune) == timeSeconds(call.rps, call.luck, rune.chance.n)

\* The ids of the list returned.
ReturnedIds == { ret.processed[j].id : j \in 1..Len(ret.processed) }

\* C15: with hideInstant true a rune that passes the text filter is in the
\* list processRunes returns if and only if its time is at least 1 (Infinity
\* is); with hideInstant false or absent no rune is removed for its time.
\* Every rune that is kept is in the list once.
C15_HideInstant ==
  ProcessReturned =>
    /\ \A i \in 1..Len(call.runes) :
         PassesText(call.runes[i]) =>
           (call.runes[i].id \in ReturnedIds
              <=> (HideInstantOn => Ge(TimeOf(call.runes[i]), Num(1))))
    /\ \A j \in 1..Len(ret.processed), k \in 1..Len(ret.processed) :
         j # k => ret.processed[j].id # ret.processed[k].id

\* C15's case: the test's runes at 100 rolls a second with hideInstant, the
\* fast one (0.1 s) removed and the slow one (10000 s) kept.
C15_Witness ==
  /\ ProcessReturned
  /\ call.runes = TestRunes
  /\ call.rps = Num(100) /\ call.luck = Num(1)
  /\ call.opts = [hideInstant |-> TRUE]
  /\ Len(ret.processed) = 1
  /\ ret.processed[1].id = <<"s", "l", "o", "w">>

\* The rune as processRunes is to return it: its fields, its time and
\* isSpecial false.
Extended(rune) == [time |-> TimeOf(rune), isSpecial |-> FALSE] @@ rune

\* The runes of the call that the two filters keep.
KeptRunes ==
  { rune \in { call.runes[i] : i \in 1..Len(call.runes) } :
      /\ PassesText(rune)
      /\ HideInstantOn => Ge(TimeOf(rune), Num(1)) }

\* The time the sort goes by: a missing time counts as Infinity.
SortTime(j) ==
  IF "time" \in DOMAIN ret.processed[j] THEN ret.processed[j].time
  ELSE Infinity

\* C16: with sort 'asc' the times of the list processRunes returns never
\* decrease from one entry to the next, with sort 'desc' they never increase,
\* also when the rate or the luck is <= 0 and all times are Infinity; the
\* list is a permutation of the records the filters keep.
C16_Sorted ==
  ProcessReturned /\ "sort" \in DOMAIN call.opts =>
    /\ \A j \in 1..(Len(ret.processed) - 1) :
         /\ call.opts.sort = "asc" => Le(SortTime(j), SortTime(j + 1))
         /\ call.opts.sort = "desc" => Ge(SortTime(j), SortTime(j + 1))
    /\ { ret.processed[j] : j \in 1..Len(ret.processed) }
         = { Extended(rune) : rune \in KeptRunes }
    /\ Len(ret.processed) = Cardinality(KeptRunes)

\* C16's case: five runes at two rolls a second have been sorted 'asc' into
\* another order than they came in, the two of 900 s in their first order.
C16_Witness ==
  /\ ProcessReturned
  /\ call.runes = TargetRunes
  /\ call.rps = Num(2) /\ call.luck = Num(1)
  /\ call.opts = [sort |-> "asc"]
  /\ [j \in 1..Len(ret.processed) |-> ret.processed[j].id]
       = << <<"i", "n", "s", "t", "a", "n", "t">>,
            <<"t", "a", "r", "g", "e", "t">>, <<"t", "w", "i", "n">>,
            <<"h", "o", "u", "r">>, <<"l", "o", "n", "g">> >>

\* The same for 'desc' with a rate of 0: all times are Infinity.
C16_WitnessInfinite ==
  /\ ProcessReturned
  /\ call.runes = TargetRunes
  /\ call.rps = Zero
  /\ call.opts = [sort |-> "desc"]
  /\ Len(ret.processed) = 5
  /\ \A j \in 1..5 : ret.processed[j].time = Infinity

\* The hide-instant filter of the call lets the rune through.
PassesTime(rune) == HideInstantOn => Ge(TimeOf(rune), Num(1))

\* C17: with a filter text that is not empty, a rune (that the hide-instant
\* filter lets through) is in the list processRunes returns if and only if
\* the filter text in lower case is a substring of its name in lower case or
\* of its source note in lower case; with an empty or absent filter text the
\* text filter drops no rune.
C17_TextFilter ==
  ProcessReturned =>
    \A i \in 1..Len(call.runes) :
      PassesTime(call.runes[i]) =>
        /\ HasFilterText =>
             (call.runes[i].id \in ReturnedIds
                <=> \/ IsSubstring(toLowerCase(call.opts.text),
                                   toLowerCase(call.runes[i].name))
                    \/ IsSubstring(toLowerCase(call.opts.text),
                                   toLowerCase(call.runes[i].sourceNote)))
        /\ ~HasFilterText => call.runes[i].id \in ReturnedIds

\* C17's case: the filter text 'a w' has kept the slow rune of the tests for
\* its source note 'Takes a while' and dropped the fast one.
C17_Witness ==
  /\ ProcessReturned
  /\ call.runes = TestRunes
  /\ call.opts = [text |-> <<"a", " ", "w">>]
  /\ ReturnedIds = { <<"s", "l", "o", "w">> }

\* Every entry returned is a rune of the call with its fields as they were,
\* isSpecial false and its time; with no options the list is the runes of
\* the call in their order.
ExtendsTheInput ==
  /\ \A j \in 1..Len(ret.processed) :
       \E i \in 1..Len(call.runes) :
         /\ \A field \in DOMAIN call.runes[i] :
              ret.processed[j][field] = call.runes[i][field]
         /\ DOMAIN ret.processed[j]
              = DOMAIN call.runes[i] \cup {"time", "isSpecial"}
         /\ ret.processed[j].isSpecial = FALSE
         /\ ret.processed[j].time
              = timeSeconds(call.rps, call.luck, call.runes[i].chance.n)
  /\ call.opts = EmptyObject =>
       /\ Len(ret.processed) = Len(call.runes)
       /\ \A i \in 1..Len(call.runes) :
            ret.processed[i].id = call.runes[i].id

FindReturned == pc = "returned" /\ call.op = "findNextUnderHour"

\* The entry has a time, of at least a second and under an hour.
InWindow(rune) ==
  /\ "time" \in DOMAIN rune
  /\ Ge(rune.time, Num(1))
  /\ Lt(rune.time, Num(3600))

\* C20: findNextUnderHour returns the id of the first entry of the list, in
\* list order, whose time is defined with 1 <= time < 3600; it returns null
\* if and only if no entry has such a time, and never the id of an entry with
\* a time under 1, of 3600 or more, or Infinity.
C20_FirstInWindow ==
  FindReturned =>
    /\ ret.id = null
         <=> \A i \in 1..Len(ret.processed) : ~InWindow(ret.processed[i])
    /\ ret.id # null =>
         \E i \in 1..Len(ret.processed) :
           /\ ret.processed[i].id = ret.id
           /\ InWindow(ret.processed[i])
           /\ \A j \in 1..(i - 1) : ~InWindow(ret.processed[j])

\* C20's case: in the list of times 7200, 3600, 1800, 1, 1800 the third
\* entry has been found, after the two of an hour or more and before two
\* more of the window.
C20_Witness ==
  /\ FindReturned
  /\ call.runes = TargetRunes
  /\ call.rps = Num(1) /\ call.luck = Num(1)
  /\ call.opts = EmptyObject
  /\ ret.processed[2].time = Num(3600)
  /\ ret.id = <<"t", "a", "r", "g", "e", "t">>

\* The entries of the list returned whose time is in the window.
ListedInWindow ==
  { j \in 1..Len(ret.processed) : InWindow(ret.processed[j]) }

\* C21: for each sort order the panel can select, 'asc' or 'desc', the id
\* findNextUnderHour gives for the list of processRunes is that of a listed
\* rune whose time is the least among the listed runes with a time in
\* [1, 3600) (null when there is none).
C21_SoonestTarget ==
  FindReturned /\ "sort" \in DOMAIN call.opts /\ ListedInWindow # {} =>
    \E j \in ListedInWindow :
      /\ ret.processed[j].id = ret.id
      /\ \A k \in ListedInWindow :
           Le(ret.processed[j].time, ret.processed[k].time)

\* The trimmed text of the call holds no e and no E.
NoExponentLetter ==
  \A i \in 1..Len(trim(call.input)) : trim(call.input)[i] \notin {"e", "E"}

\* The decimal number the trimmed text of the call begins with.
LeadingNumber ==
  SubSeq(trim(call.input), 1, ScanFloat(trim(call.input)).used)

\* The trimmed text of the call begins with a number, goes on after it, and
\* ends with no suffix of the table, letter case aside.
NumberAndUnknownTail ==
  /\ ParseReturned
  /\ NoExponentLetter
  /\ ScanFloat(trim(call.input)).kind = "decimal"
  /\ ScanFloat(trim(call.input)).used < Len(trim(call.input))
  /\ \A t \in TableSuffixes :
       ~endsWith(toLowerCase(trim(call.input)), toLowerCase(t))

\* C22: for a trimmed input without e or E that begins with a well-formed
\* number and goes on with characters that match no suffix of the table,
\* parseScaled returns the leading number and no warning ('1.5x' gives 1.5);
\* for an input that begins with no number ('abc', 'x') it returns 0.
C22_UnknownTail ==
  /\ NumberAndUnknownTail =>
       /\ WellFormedNumber(LeadingNumber)
       /\ ret.value = LiteralValue(ScanFloat(LeadingNumber))
       /\ ret.warning = null
  /\ ParseReturned /\ ScanFloat(trim(call.input)).kind = "none" =>
       ret.value = Zero
  /\ ParseReturned /\ trim(call.input) = <<"1", ".", "5", "x">> =>
       ret.value = MkNum(15, 1, -1)

\* C22's case: '1.5x' has been parsed to 1.5 with the table of the tests.
C22_Witness ==
  /\ NumberAndUnknownTail
  /\ scales = TestScales
  /\ call.input = <<"1", ".", "5", "x">>
  /\ ret.value = MkNum(15, 1, -1)

\* Entry i of the scales object has a suffix that ends the trimmed input,
\* letter case aside, and what is before it parses as a number.
MatchesWithPrefix(i) ==
  /\ scales[i][1] # <<>>
  /\ endsWith(toLowerCase(trim(call.input)), toLowerCase(scales[i][1]))
  /\ isFinite(PrefixBefore(i))

\* Two entries of different suffix lengths match, i with the larger
\* multiplier.
LargerOfTwo(i, j) ==
  /\ MatchesWithPrefix(i) /\ MatchesWithPrefix(j)
  /\ Len(scales[i][1]) # Len(scales[j][1])
  /\ Gt(scales[i][2], scales[j][2])

ZeroWarnings ==
  { <<"Empty input">>, <<"Invalid scientific notation">>,
    <<"Invalid number format">>, <<"Invalid number part before suffix">>,
    <<"Result too large">> }

IsAmbiguityWarning(warning) ==
  warning # null /\ Head(warning) = "Ambiguous suffix \""

\* Entry i of the scales object is the one the suffix scan stops at.
ScanStopsAt(i) ==
  /\ trim(call.input) # <<>>
  /\ NoExponentLetter
  /\ MatchesWithPrefix(i)
  /\ ~EarlierMatch(i)

\* C24: parseScaled returns null or one warning, and the warning fits the
\* value: with each of the warnings other than the ambiguity warning the
\* value is 0; a product of prefix and multiplier outside the finite range
\* gives 0 and 'Result too large'; the ambiguity warning comes only with the
\* finite product of the prefix and the multiplier of the matched suffix.
C24_WarningFitsValue ==
  ParseReturned =>
    /\ \/ ret.warning = null
       \/ ret.warning \in ZeroWarnings
       \/ IsAmbiguityWarning(ret.warning)
    /\ ret.warning \in ZeroWarnings => ret.value = Zero
    /\ \A i \in 1..Len(scales) :
         ScanStopsAt(i) /\ ~isFinite(Mul(PrefixBefore(i), scales[i][2])) =>
           ret.value = Zero /\ ret.warning = <<"Result too large">>
    /\ IsAmbiguityWarning(ret.warning) =>
         \E i \in 1..Len(scales) :
           /\ ScanStopsAt(i)
           /\ isFinite(ret.value)
           /\ ret.value = Mul(PrefixBefore(i), scales[i][2])

\* C24's case: '999V' with V: 1e307 has been parsed; the product is beyond
\* the finite range and the result is 0 with 'Result too large'.
C24_Witness ==
  /\ ParseReturned
  /\ scales = HugeScales
  /\ call.input = <<"9", "9", "9", "V">>
  /\ ret.value = Zero
  /\ ret.warning = <<"Result too large">>

\* C28: parseScaled never returns 'Invalid number part before suffix': the
\* suffix scan stops only at a suffix whose prefix parses as a finite number,
\* and the result is then the product with its multiplier, 'Result too
\* large', or an ambiguity warning.
C28_NumberPartValid ==
  ParseReturned =>
    /\ ret.warning # <<"Invalid number part before suffix">>
    /\ \A i \in 1..Len(scales) :
         ScanStopsAt(i) =>
           /\ ~isNaN(PrefixBefore(i))
           /\ isFinite(PrefixBefore(i))
           /\ \/ ret.value = Mul(PrefixBefore(i), scales[i][2])
              \/ ret.warning = <<"Result too large">>

\* C28's case: '1.5K' has been parsed with K: 1e3; the scan stopped at K,
\* the prefix '1.5' parsed, and the result is 1500 without a warning.
C28_Witness ==
  /\ ParseReturned
  /\ scales = LongScales
  /\ call.input = <<"1", ".", "5", "K">>
  /\ \E i \in 1..Len(scales) : ScanStopsAt(i) /\ scales[i][1] = <<"K">>
  /\ ret.value = Num(1500)
  /\ ret.warning = null

\* The place of a rune in the list given to processRunes.
InputIndex(id) ==
  CHOOSE i \in 1..Len(call.runes) : call.runes[i].id = id

\* C25: the sort of processRunes is stable for 'asc' and for 'desc': two
\* runes of equal time, two of time Infinity among them, are in the list
\* returned in the order they have in the list given.
C25_StableSort ==
  ProcessReturned /\ "sort" \in DOMAIN call.opts =>
    \A j \in 1..Len(ret.processed), k \in 1..Len(ret.processed) :
      (j < k /\ ret.processed[j].time = ret.processed[k].time) =>
        InputIndex(ret.processed[j].id) < InputIndex(ret.processed[k].id)

\* C25's case: sorted 'desc', the runes of 7200, 3600, 1800, 1 and 1800
\* seconds have come back with the one of 1 second moved to the end and the
\* two of 1800 seconds in their order, 'target' before 'twin'.
C25_Witness ==
  /\ ProcessReturned
  /\ call.runes = TargetRunes
  /\ call.rps = Num(1) /\ call.luck = Num(1)
  /\ call.opts = [sort |-> "desc"]
  /\ [j \in 1..Len(ret.processed) |-> ret.processed[j].id]
       = << <<"l", "o", "n", "g">>, <<"h", "o", "u", "r">>,
            <<"t", "a", "r", "g", "e", "t">>, <<"t", "w", "i", "n">>,
            <<"i", "n", "s", "t", "a", "n", "t">> >>

\* The options of the call with hideInstant set to b.
WithHideInstant(b) ==
  [hideInstant |-> b]
    @@ [key \in DOMAIN call.opts \ {"hideInstant"} |-> call.opts[key]]

\* The next target the panel would show with hideInstant set to b, all else
\* as in the call.
NextTargetWith(b) ==
  findNextUnderHour(
    processRunes(call.runes, call.rps, call.luck, WithHideInstant(b)))

\* C30: the next target does not depend on hideInstant: for the runes, rate,
\* luck, filter text and sort order of a call, findNextUnderHour gives the
\* same id (or null) for the list made with hideInstant true as for the one
\* made with hideInstant false, and the call's own result is that id; with a
\* rate or a luck <= 0 hideInstant removes nothing that the text filter
\* keeps and the next target is null.
C30_HideInstantKeepsTarget ==
  FindReturned =>
    /\ NextTargetWith(TRUE) = NextTargetWith(FALSE)
    /\ ret.id = NextTargetWith(TRUE)
    /\ (Le(call.rps, Zero) \/ Le(call.luck, Zero)) =>
         /\ ret.id = null
         /\ Len(ret.processed)
              = Cardinality({ i \in 1..Len(call.runes) :
                                PassesText(call.runes[i]) })

\* C30's case: with hideInstant the rune of half a second has been removed
\* from five runes at two rolls a second, and the next target is the rune it
\* is without hideInstant.
C30_Witness ==
  /\ FindReturned
  /\ call.runes = TargetRunes
  /\ call.rps = Num(2) /\ call.luck = Num(1)
  /\ call.opts = [hideInstant |-> TRUE]
  /\ Len(ret.processed) = 4
  /\ ret.id = <<"h", "o", "u", "r">>
  /\ NextTargetWith(FALSE) = <<"h", "o", "u", "r">>

\* C26: processRunes leaves the list it is given as it was: after a call
\* with any text filter, hideInstant and sort, the caller's list has the
\* length, the order and the records, field by field, it had before; the
\* sort has acted on the list returned, an array of its own.
C26_InputUnchanged ==
  ProcessReturned =>
    /\ Len(ret.runes) = Len(call.runes)
    /\ \A i \in 1..Len(call.runes) :
         /\ DOMAIN ret.runes[i] = DOMAIN call.runes[i]
         /\ \A field \in DOMAIN call.runes[i] :
              ret.runes[i][field] = call.runes[i][field]
    /\ ret.processed
         = processRunesArrays(call.runes, call.rps, call.luck,
                              call.opts).processed

\* C26's case: a call with an empty text, hideInstant and sort 'asc' has
\* removed the instant rune of five and returned the others in another
\* order, and the caller's list is the five runes in the order given.
C26_Witness ==
  /\ ProcessReturned
  /\ call.runes = TargetRunes
  /\ call.rps = Num(2) /\ call.luck = Num(1)
  /\ call.opts = [text |-> <<>>, hideInstant |-> TRUE, sort |-> "asc"]
  /\ Len(ret.processed) = 4
  /\ ret.processed[1].id = <<"t", "a", "r", "g", "e", "t">>
  /\ ret.runes = TargetRunes

\* --------------------------------------------------------------- C27

\* What the next mount would restore from localStorage is the value each
\* hook holds in memory.
RestoresMemory ==
  /\ RestoreBoolean(storage.runeCalc_hideInstant,
                    InitialValues.runeCalc_hideInstant)
       = storedValue.runeCalc_hideInstant
  /\ RestoreSet(storage.runeCalc_obtained, InitialValues.runeCalc_obtained)
       = storedValue.runeCalc_obtained

\* The rune ids in the obtained set of the panel.
ObtainedIds ==
  { storedValue.runeCalc_obtained[i] :
      i \in 1..Len(storedValue.runeCalc_obtained) }

\* C27: persisted settings stay consistent with the settings in memory.
\* After any sequence of setValue calls, with values or with updaters and
\* with several calls before the next render, the value the next mount
\* restores from storage is the latest value in memory, and the obtained
\* set holds exactly the rune ids toggled an odd number of times.
C27_PersistedConsistent ==
  mounted => (RestoresMemory /\ ObtainedIds = toggled)

\* --------------------------------------------------------------- C29

Statuses == {"runes", "scales"}

BothLoading == \A d \in Statuses : loading[d] = "loading"

BothSettled == \A d \in Statuses : loading[d] # "loading"

BothLoaded == \A d \in Statuses : loading[d] = "loaded"

\* A step of one page changes a status only from 'loading', and only to
\* 'loaded' or 'error'; a step that loads the page again starts a new App.
SettlesOnce ==
  \/ loadData' = "runes"
  \/ \A d \in Statuses :
       loading'[d] # loading[d]
         => (loading[d] = "loading" /\ loading'[d] \in {"loaded", "error"})

\* C29: App's loading state machine.  Each of the two load statuses starts
\* as 'loading' and changes exactly once, to 'loaded' or 'error'; the
\* scales fetch is attempted even when the runes fetch fails; once both
\* fetches have settled App has left the loading screen and shows the
\* panel if and only if both documents loaded, otherwise the error screen,
\* so that the 'Something went wrong' fallback is never rendered.
C29_LoadingStateMachine ==
  /\ [](loadData = "runes" => BothLoading)
  /\ [][SettlesOnce]_loading
  /\ \A d \in Statuses : (loading[d] = "loading") ~> (loading[d] # "loading")
  /\ (loading.runes = "error") ~> (loadData # "scales")
  /\ [](BothSettled =>
          Screen = (IF BothLoaded THEN "panel" ELSE "error"))
  /\ [](Screen # "fallback")

====
